---------------------------- MODULE Spec2Model ----------------------------
(***************************************************************************)
(* The conversational completion engine of llmedge (LLMInference.cpp):     *)
(* turn history, rendered-prefix bookkeeping, the staged llama_batch, the  *)
(* backend key/value cache as the engine drives it, and the UTF-8          *)
(* boundary buffer.  Text is a sequence of byte values (0..255); the       *)
(* markers a chat template writes around a turn are negative codes.  A     *)
(* token is the tuple of the bytes it detokenizes to; special tokens are   *)
(* one-element tuples of a negative code.                                  *)
(***************************************************************************)
EXTENDS Integers, Sequences, FiniteSets, TLC

(* ------------------------------ bounds -------------------------------- *)

\* llama_n_ctx(_ctx): the context window the handle was loaded with.
ContextSize == 6
\* Cap on the number of turns held in _messages.
MaxMsgs == 3

(* --------------------------- text and tokens -------------------------- *)

Roles == {"system", "user"}

\* Special tokens of the vocabulary, and the value read through a dangling
\* token pointer.
BOS == <<-5>>
EOG == <<-6>>
Garbage == <<-7>>
\* Token id 0, the value _currToken is constructed with.
Unk == <<-8>>

\* The terminal sentinel "[EOG]" as bytes.
Sentinel == <<91, 69, 79, 71, 93>>

\* Contents the host passes to addChatMessage, and queries to startCompletion
\* (C strings: no embedded NUL).
Contents == {<<97>>}
Queries == {<<>>, <<97>>}

\* Chat templates a handle can be loaded with: a ChatML-style template, a
\* template that writes turn contents only, and one the renderer rejects.
Templates == {"chatml", "bare", "unsupported"}

\* Tokens the sampler can return in the engine specification.
CoreVocab == {EOG, <<97>>}

\* Microseconds between the two clock readings of a step: one everywhere
\* but in the metrics specification, where a step can also take none or two.
Tick == {1}
Elapsed == {0, 1, 2}

\* Counter values getResponseTokensPerSecond is evaluated on.
TokenCounts == {-1, 0, 1, 3, 5, 10}
ElapsedTimes == {-1, 0, 1, 3, 7, 1000000, 2000000}

\* Tokens the sampler can return in the boundary-buffer specification: an
\* ASCII byte, NUL, the leading byte of a 3-byte character, a continuation
\* byte, a byte that opens no character, and two-byte pieces.
Utf8Vocab ==
    {EOG, <<97>>, <<0>>, <<226>>, <<130>>, <<255>>, <<226, 130>>, <<0, 226>>}

NoBatch == [n |-> 0, src |-> "null", pos |-> 0]

VARIABLES
    storeChats,            \* _storeChats
    tmpl,                  \* _chatTemplate
    messages,              \* _messages
    prevLen,               \* _prevLen
    formattedSize,         \* _formattedMessages.size()
    promptTokens,          \* _promptTokens
    currToken,             \* _currToken
    batch,                 \* *_batch: n_tokens, what token points at, pos[0]
    kv,                    \* backend cache of sequence 0: token at position i-1
    response,              \* _response
    cacheResponseTokens,   \* _cacheResponseTokens
    nCtxUsed,              \* _nCtxUsed
    responseNumTokens,     \* _responseNumTokens
    responseGenerationTime,\* _responseGenerationTime, microseconds
    metric,                \* the value getResponseTokensPerSecond returned last
    loadArg,               \* the contextSize loadModel was called with
    ctxParams,             \* n_ctx and n_batch the context was created with
    disableThinking,       \* _disableThinking
    reasoningBudget,       \* _reasoningBudget
    sd,                    \* the SdHandle of the video binding
    jni,                   \* the video binding's calls: handle pointer, backend
                           \* hook, call in flight, what the last call did
    audio,                 \* the WhisperHandle or BarkHandle of the audio
                           \* bindings, and each thread's position in its call
    lastQuery,             \* the query the last startCompletion was given
    prev,                  \* the operation that ran before the last, and its outcome
    lastOp,                \* the operation that ran last
    lastRet,               \* its outcome: "ok" or the error it raised
    lastStr,               \* the string completionLoop returned
    emitted,               \* fragments returned since the last startCompletion
    pushed                 \* pieces detokenized since the last startCompletion

\* State that addChatMessage, startCompletion, completionLoop and
\* stopCompletion leave alone.
auxVars ==
    <<metric, loadArg, ctxParams, disableThinking, reasoningBudget, sd, jni,
      audio>>

vars == <<storeChats, tmpl, messages, prevLen, formattedSize, promptTokens,
          currToken, batch, kv, response, cacheResponseTokens, nCtxUsed,
          responseNumTokens, responseGenerationTime, prev, lastOp, lastRet,
          lastStr, lastQuery, emitted, pushed, auxVars>>

(* ----------------------------- helpers -------------------------------- *)

Max(a, b) == IF a >= b THEN a ELSE b

RECURSIVE Flatten(_)
Flatten(ss) == IF ss = <<>> THEN <<>> ELSE Head(ss) \o Flatten(Tail(ss))

\* The bytes a C string function sees of s: up to the first NUL.
RECURSIVE CStr(_)
CStr(s) ==
    IF s = <<>> \/ Head(s) = 0 THEN <<>> ELSE <<Head(s)>> \o CStr(Tail(s))

Message(role, content) == [role |-> role, content |-> content]

(* ------------------------ binary32 arithmetic ------------------------- *)

\* A float value is kept as the fraction it is exactly, in lowest terms;
\* den = 0 stands for an infinity.
Abs(x) == IF x < 0 THEN -x ELSE x

RECURSIVE Gcd(_, _)
Gcd(a, b) == IF b = 0 THEN a ELSE Gcd(b, a % b)

Ratio(n, d) ==
    LET g == Gcd(Abs(n), d)
    IN IF g = 0 THEN [num |-> n, den |-> d]
       ELSE [num |-> n \div g, den |-> d \div g]

\* 2^24: a binary32 significand has 24 bits.
Significand == 16777216
\* The literal 1e6f.
Million == 1000000

\* n/d to the nearest integer, ties to even.
RoundHalfEven(n, d) ==
    LET q == n \div d
        r == n % d
    IN IF 2 * r > d \/ (2 * r = d /\ q % 2 = 1) THEN q + 1 ELSE q

\* The binary32 number nearest to n/d * mul/div (n, d > 0): n/d is scaled
\* by powers of two into [2^23, 2^24) and rounded there.
RECURSIVE RoundScaled(_, _, _, _)
RoundScaled(n, d, mul, div) ==
    IF 2 * n < Significand * d THEN RoundScaled(2 * n, d, mul, 2 * div)
    ELSE IF n >= Significand * d THEN RoundScaled(n, 2 * d, 2 * mul, div)
    ELSE Ratio(RoundHalfEven(n, d) * mul, div)

\* The binary32 number nearest to the fraction n/d, d > 0.
ToFloat(n, d) ==
    LET r == Ratio(n, d)
        f == RoundScaled(Abs(r.num), r.den, 1, 1)
    IN IF n = 0 THEN Ratio(0, 1)
       ELSE IF n < 0 THEN [f EXCEPT !.num = -f.num] ELSE f

\* a * b and a / b in binary32.
FMul(a, b) == ToFloat(a.num * b.num, a.den * b.den)
FDiv(a, b) ==
    IF b.num = 0 THEN [num |-> a.num, den |-> 0]
    ELSE IF b.num < 0 THEN ToFloat(-(a.num * b.den), a.den * (-b.num))
    ELSE ToFloat(a.num * b.den, a.den * b.num)

(* ------------------------- 64- and 32-bit values ---------------------- *)

\* A machine integer is the tuple of its 16-bit limbs, most significant
\* first: four for a long, two for an int or a uint32_t.  The first limb of
\* a signed value is signed, every other limb is in 0..Limb-1.
Limb == 2^16

LongOf(n) == <<0, 0, n \div Limb, n % Limb>>
IntOf(n) == <<n \div Limb, n % Limb>>

\* a < b for two values of the same width.
RECURSIVE Less(_, _)
Less(a, b) ==
    IF a = <<>> THEN FALSE
    ELSE IF Head(a) # Head(b) THEN Head(a) < Head(b)
    ELSE Less(Tail(a), Tail(b))

\* std::numeric_limits<uint32_t>::max() as a long.
Uint32Max == <<0, 0, Limb - 1, Limb - 1>>

\* std::clamp(v, lo, hi).
Clamp(v, lo, hi) == IF Less(v, lo) THEN lo ELSE IF Less(hi, v) THEN hi ELSE v

\* std::min(a, b).
Min(a, b) == IF Less(b, a) THEN b ELSE a

\* static_cast<uint32_t>(long): the low 32 bits.
LongToUint32(v) == <<v[3], v[4]>>

\* static_cast<int>(long): the low 32 bits as two's complement.
LongToInt(v) == <<IF v[3] >= Limb \div 2 THEN v[3] - Limb ELSE v[3], v[4]>>

\* An int stored into a uint32_t field.
IntToUint32(i) == <<i[1] % Limb, i[2]>>

\* ctx_params.n_batch as loadModel derives it from the clamped contextSize.
BatchWidth(safeContext) == IntToUint32(Min(LongToInt(safeContext), IntOf(512)))

\* ctx_params.n_ctx and ctx_params.n_batch for a contextSize argument.
ContextParams(contextSize) ==
    LET safeContext == Clamp(contextSize, LongOf(1), Uint32Max)
    IN [n_ctx |-> LongToUint32(safeContext),
        n_batch |-> BatchWidth(safeContext)]

NoContext == [n_ctx |-> <<0, 0>>, n_batch |-> <<0, 0>>]

\* (int) of a size_t that holds a uint32_t value.
Uint32ToInt(u) ==
    (IF u[1] >= Limb \div 2 THEN u[1] - Limb ELSE u[1]) * Limb + u[2]

\* What loadModel can meet: success, llama_model_load_from_file returning
\* null, llama_init_from_model returning null.
LoadOutcomes == {"ok", "model", "context"}

\* contextSize arguments: the extremes of a long, the values around 0, 1,
\* the batch cap, 2^31 and 2^32, and some between.
ContextSizes ==
    {<<-(Limb \div 2), 0, 0, 0>>, <<-1, Limb - 1, Limb - 1, Limb - 1>>,
     LongOf(0), LongOf(1), LongOf(2), LongOf(6), LongOf(511), LongOf(512),
     LongOf(513),
     LongOf(4096), <<0, 0, Limb \div 2 - 1, Limb - 1>>,
     <<0, 0, Limb \div 2, 0>>, <<0, 0, Limb \div 2, 1>>,
     <<0, 0, Limb - 1, Limb - 2>>, Uint32Max, <<0, 1, 0, 0>>,
     <<0, 1, 0, 512>>, <<Limb \div 2 - 1, Limb - 1, Limb - 1, Limb - 1>>}

\* getResponseTokensPerSecond's guard, one operand left unchecked.
NoThroughputTimeOnly(t, el) == el <= 0

\* getResponseTokensPerSecond's guard.
NoThroughput(t, el) == el <= 0 \/ t <= 0

\* getResponseTokensPerSecond on the counters t and el.
TokensPerSecond(t, el) ==
    IF NoThroughput(t, el) THEN ToFloat(0, 1)
    ELSE FDiv(FMul(ToFloat(t, 1), ToFloat(Million, 1)), ToFloat(el, 1))

\* seg occurs in seq as a run of consecutive elements.
OccursIn(seg, seq) ==
    \E i \in 0..(Len(seq) - Len(seg)) : SubSeq(seq, i + 1, i + Len(seg)) = seg

(* --------------------------- reasoning policy ------------------------- *)

\* The directive "/no_think" and a newline.
Marker == <<47, 110, 111, 95, 116, 104, 105, 110, 107>>
Newline == <<10>>

\* setReasoningOptions' suppression flag, the budget left out.
RequestedNoThinkFlagOnly(disable, budget) == disable

\* setReasoningOptions' suppression flag.
RequestedNoThink(disable, budget) == disable \/ budget = 0

\* startCompletion's suppressThinking.
SuppressThinking(disable, budget) == disable \/ budget = 0

\* The marker put before every query, a newline always behind it.
FinalQueryAlwaysNewline(query, suppress) ==
    IF suppress /\ ~OccursIn(Marker, query)
    THEN Marker \o Newline \o query
    ELSE query

\* startCompletion's finalQuery.
FinalQuery(query, suppress) ==
    IF suppress /\ ~OccursIn(Marker, query)
    THEN IF query # <<>> THEN Marker \o Newline \o query ELSE Marker
    ELSE query

\* Values setReasoningOptions is given for the budget (a handle is loaded
\* with -1).
Budgets == {0, 1}

\* Queries with and without the marker.
ReasoningQueries == {<<>>, <<97>>, Marker, <<97>> \o Marker}

(* ------------------------- chat template renderer --------------------- *)

\* The marker a ChatML-style template opens a turn of `role` with.
RoleMark(role) ==
    CASE role = "system" -> <<-1>>
      [] role = "user" -> <<-2>>
      [] OTHER -> <<-3>>

TurnEnd == <<-4>>

\* One turn as the template writes it.
RenderTurn(m) ==
    IF tmpl = "chatml" THEN RoleMark(m.role) \o m.content \o TurnEnd
    ELSE m.content

\* The text llama_chat_apply_template writes for `ms`; add_ass appends the
\* generation marker (the opening of an assistant turn).
RenderText(ms, addAss) ==
    Flatten([i \in 1..Len(ms) |-> RenderTurn(ms[i])])
        \o (IF addAss /\ tmpl = "chatml" THEN RoleMark("assistant") ELSE <<>>)

\* llama_chat_apply_template's return value: the length of the full text,
\* whatever the buffer's size, or a negative number for a template it does
\* not support.
ApplyTemplate(ms, addAss) ==
    IF tmpl = "unsupported" THEN -1 ELSE Len(RenderText(ms, addAss))

(* ------------------------------ tokenizer ----------------------------- *)

\* common_tokenize(vocab, text, add_special, parse_special): one token per
\* byte or marker, behind BOS when add_special is set.
Tokenize(text, addSpecial) ==
    (IF addSpecial THEN <<BOS>> ELSE <<>>)
        \o [i \in 1..Len(text) |-> <<text[i]>>]

\* llama_vocab_is_eog
IsEog(t) == t = EOG

\* common_token_to_piece(ctx, token, special = true)
TokenToPiece(t) == IF t[1] < 0 THEN <<>> ELSE t

(* ------------------------ UTF-8 boundary buffer ----------------------- *)

\* *bytes at index i of the NUL-terminated copy of s.
ByteAt(s, i) == IF i <= Len(s) THEN s[i] ELSE 0

\* The number of bytes the leading byte b announces; 0 when b matches none
\* of the four leading-byte patterns.
LeadLen(b) ==
    IF b \div 128 = 0 THEN 1           \* (b & 0x80) == 0x00
    ELSE IF b \div 32 = 6 THEN 2       \* (b & 0xE0) == 0xC0
    ELSE IF b \div 16 = 14 THEN 3      \* (b & 0xF0) == 0xE0
    ELSE IF b \div 8 = 30 THEN 4       \* (b & 0xF8) == 0xF0
    ELSE 0

\* (b & 0xC0) == 0x80
IsContinuation(b) == b \div 64 = 2

RECURSIVE Utf8Scan(_, _)
Utf8Scan(s, i) ==
    IF ByteAt(s, i) = 0 THEN TRUE
    ELSE LET num == LeadLen(ByteAt(s, i)) IN
         IF num = 0 THEN FALSE
         ELSE IF \A k \in 1..(num - 1) : IsContinuation(ByteAt(s, i + k))
              THEN Utf8Scan(s, i + num)
              ELSE FALSE

\* _isValidUtf8(str.c_str()): the scan stops at the first NUL of str.
IsValidUtf8(s) == Utf8Scan(s, 1)

(* --------------------------- engine helpers --------------------------- *)

\* The erase loop with its role test inverted: the system turns go.
ResetToSystemInverted(ms) == SelectSeq(ms, LAMBDA m : m.role # "system")

\* The erase loop stopping at the first turn that is not a system turn and
\* dropping everything from there on.
ResetToSystemLeading(ms) ==
    LET run == {k \in 0..Len(ms) : \A j \in 1..k : ms[j].role = "system"}
        n == CHOOSE k \in run : \A l \in run : l <= k
    IN SubSeq(ms, 1, n)

\* startCompletion's erase loop: every turn whose role is not "system" goes.
ResetToSystem(ms) == SelectSeq(ms, LAMBDA m : m.role = "system")

\* llama_memory_seq_pos_max(mem, 0): -1 for an empty cache.
SeqPosMax(cache) == Len(cache) - 1

\* Every prompt staged from position 0.
NPastFromZero(persist, pl, cache) == 0

\* The position startCompletion stages the prompt at.
NPast(persist, pl, cache) ==
    IF persist /\ pl > 0
    THEN (IF SeqPosMax(cache) >= 0 THEN SeqPosMax(cache) + 1 ELSE 0)
    ELSE 0

\* The cache never cleared by startCompletion.
CacheAfterStartKept(persist, pl, cache) == cache

\* The cache startCompletion leaves: llama_memory_seq_rm(mem, -1, -1, -1)
\* unless the turn continues a persisted conversation.
CacheAfterStart(persist, pl, cache) ==
    IF persist /\ pl > 0 THEN cache ELSE <<>>

\* Start-of-sequence marking on every tokenization.
AddSpecialAlways(pl) == TRUE

\* add_special of startCompletion's tokenization.
AddSpecial(pl) == pl = 0

\* The budget test without the staged batch's size.
ContextExceededUsedOnly(used, n) == used > ContextSize

\* completionLoop's budget test: _nCtxUsed + _batch->n_tokens > contextSize.
ContextExceeded(used, n) == used + n > ContextSize

\* std::numeric_limits<int32_t>::max()
Int32Max == 2147483647

\* The validation without its test for an empty prompt.
PromptRejectedTooLargeOnly(toks) == Len(toks) > Int32Max

\* startCompletion's validation of the tokenized prompt.
PromptRejected(toks) == toks = <<>> \/ Len(toks) > Int32Max

\* The entry test with < for <= and no test for a missing batch.
BatchMissingNegativeOnly(b) == b.n < 0

\* completionLoop's entry test.
BatchMissing(b) == b.src = "null" \/ b.n <= 0

\* The tokens _batch->token points at: _promptTokens' storage, or _currToken.
\* After a failed startCompletion has reassigned _promptTokens the pointer
\* dangles and the read yields whatever the freed storage holds.
BatchTokens(b, prompt, curr) ==
    CASE b.src = "prompt" -> prompt
      [] b.src = "curr" -> <<curr>>
      [] OTHER -> [i \in 1..b.n |-> Garbage]

\* llama_decode's effect on the cache: the batch's tokens are written at the
\* consecutive positions pos, pos+1, ...
Decoded(cache, pos, toks) ==
    [i \in 1..Max(Len(cache), pos + Len(toks)) |->
        IF i > pos /\ i <= pos + Len(toks) THEN toks[i - pos] ELSE cache[i]]

\* The turn committed with the bytes the boundary buffer still holds.
AssistantTurnWithBuffer(resp) ==
    Message("assistant", CStr(resp \o cacheResponseTokens))

\* The turn committed at end-of-generation: addChatMessage(_response.c_str(),
\* "assistant") copies the response as a C string.
AssistantTurn(resp) == Message("assistant", CStr(resp))

\* stopCompletion rendering with the generation marker appended.
StopPrevLenWithMarker(persist, ms) ==
    IF persist THEN ApplyTemplate(ms, TRUE) ELSE 0

\* stopCompletion adding the rendered length to _prevLen.
StopPrevLenAccumulated(persist, ms) ==
    IF persist THEN prevLen + ApplyTemplate(ms, FALSE) ELSE 0

\* stopCompletion's new _prevLen.
StopPrevLen(persist, ms) == IF persist THEN ApplyTemplate(ms, FALSE) ELSE 0

\* startCompletion leaving the generation metrics as they were.
MetricsAtStartKept ==
    [tokens |-> responseNumTokens, time |-> responseGenerationTime]

\* The generation metrics startCompletion sets.
MetricsAtStart == [tokens |-> 0, time |-> 0]

(* ---------------------------- video handle ---------------------------- *)

\* An SdHandle as its member initializers leave it.
NoHandle ==
    [ctx |-> FALSE, jvm |-> FALSE, progressCallbackGlobalRef |-> FALSE,
     progressMethodID |-> FALSE, cancellationRequested |-> FALSE,
     totalFrames |-> 0, stepsPerFrame |-> 0, totalSteps |-> 0,
     currentFrame |-> 0]

\* The video binding before any call: no handle, no hook registered with
\* the backend, nothing in flight.  The fields behind op hold what the last
\* call did: the exception it left pending, what it returned, the frame
\* array the backend gave it with the free notifications per buffer and for
\* the array, and for the progress hook whether it raised, the callback
\* invocations it made, its step argument and the JNI environment it found.
\* The threads that call into one audio handle.
AudioThreads == {1, 2}

\* The callback objects a caller passes; 0 is null.
AudioCallbacks == {0, 1, 2}

\* A thread that is in no call.
NoAudioCall ==
    [pc |-> "idle", op |-> "none", cb |-> 0, progress_callback |-> FALSE,
     new_segment_callback |-> FALSE, seen |-> <<>>, reported |-> {}]

\* No audio handle: the pointer is 0 and no global reference exists.
NoAudio ==
    [kind |-> "none", handle |-> "null", ctx |-> FALSE,
     progressCallbackGlobalRef |-> <<>>, segmentCallbackGlobalRef |-> <<>>,
     mutex |-> 0, globalRefs |-> {},
     thread |-> [t \in AudioThreads |-> NoAudioCall]]

NoCall ==
    [handlePtr |-> "null", progressCb |-> FALSE, globalRefs |-> 0,
     pc |-> "idle", op |-> "none", exception |-> "none", result |-> "void",
     resultLen |-> 0, array |-> FALSE, frames |-> <<>>, bufferFrees |-> <<>>,
     arrayFrees |-> 0, raised |-> FALSE, calls |-> <<>>, step |-> 0,
     env |-> "ok"]

(* ------------------------------- state -------------------------------- *)

\* A handle whose generation counters read t and el, chat template aside.
Handle(t, el) ==
    /\ storeChats \in BOOLEAN
    /\ messages = <<>>
    /\ prevLen = 0
    /\ formattedSize = ContextSize
    /\ promptTokens = <<>>
    /\ currToken = Unk
    /\ batch = NoBatch
    /\ kv = <<>>
    /\ response = <<>>
    /\ cacheResponseTokens = <<>>
    /\ nCtxUsed = 0
    /\ responseNumTokens = t
    /\ responseGenerationTime = el
    /\ metric = Ratio(0, 1)
    /\ loadArg = LongOf(ContextSize)
    /\ ctxParams = ContextParams(LongOf(ContextSize))
    /\ disableThinking = FALSE
    /\ reasoningBudget = -1
    /\ sd = NoHandle
    /\ jni = NoCall
    /\ audio = NoAudio
    /\ lastQuery = <<>>
    /\ prev = <<"new", "ok">>
    /\ lastOp = "load"
    /\ lastRet = "ok"
    /\ lastStr = <<>>
    /\ emitted = <<>>
    /\ pushed = <<>>

\* The handle after construction and loadModel, chat template aside.
Loaded == Handle(0, 0)

\* A model whose template writes role markers, or one the renderer rejects.
Init == Loaded /\ tmpl \in Templates \ {"bare"}

Alive == lastRet # "crashed"

AddChatMessage(role, content) ==
    /\ Alive
    /\ Len(messages) < MaxMsgs
    /\ messages' = Append(messages, Message(role, content))
    /\ prev' = <<lastOp, lastRet>>
    /\ lastOp' = "add"
    /\ lastRet' = "ok"
    /\ lastStr' = <<>>
    /\ lastQuery' = <<>>
    /\ UNCHANGED <<storeChats, tmpl, prevLen, formattedSize, promptTokens,
                   currToken, batch, kv, response, cacheResponseTokens,
                   nCtxUsed, responseNumTokens, responseGenerationTime,
                   emitted, pushed, auxVars>>

StartCompletion(query) ==
    LET ms0 == IF storeChats THEN messages ELSE ResetToSystem(messages)
        pl0 == IF storeChats THEN prevLen ELSE 0
        fs0 == IF storeChats THEN formattedSize ELSE ContextSize
        suppressThinking == SuppressThinking(disableThinking, reasoningBudget)
        ms1 == Append(ms0, Message("user", FinalQuery(query, suppressThinking)))
        len1 == ApplyTemplate(ms1, TRUE)
        fs1 == IF len1 > fs0 THEN len1 ELSE fs0
        newLen == ApplyTemplate(ms1, TRUE)
        prompt == SubSeq(RenderText(ms1, TRUE), pl0 + 1, newLen)
        toks == Tokenize(prompt, AddSpecial(pl0))
        nPast == NPast(storeChats, pl0, kv)
    IN
    /\ Alive
    /\ Len(ms0) < MaxMsgs
    /\ messages' = ms1
    /\ prevLen' = pl0
    /\ formattedSize' = fs1
    /\ responseGenerationTime' = MetricsAtStart.time
    /\ responseNumTokens' = MetricsAtStart.tokens
    /\ response' = <<>>
    /\ cacheResponseTokens' = <<>>
    /\ emitted' = <<>>
    /\ pushed' = <<>>
    /\ prev' = <<lastOp, lastRet>>
    /\ lastOp' = "start"
    /\ lastStr' = <<>>
    /\ lastQuery' = query
    /\ IF newLen < 0
       THEN /\ lastRet' = "RenderError"
            /\ UNCHANGED <<promptTokens, batch, kv>>
       ELSE IF PromptRejected(toks)
       THEN /\ lastRet' = (IF toks = <<>> THEN "EmptyPromptError"
                                         ELSE "PromptTooLargeError")
            /\ promptTokens' = toks
            /\ batch' = IF batch.src = "prompt"
                        THEN [batch EXCEPT !.src = "dangling"]
                        ELSE batch
            /\ UNCHANGED kv
       ELSE /\ lastRet' = "ok"
            /\ promptTokens' = toks
            /\ batch' = [n |-> Len(toks), src |-> "prompt", pos |-> nPast]
            /\ kv' = CacheAfterStart(storeChats, pl0, kv)
    /\ UNCHANGED <<storeChats, tmpl, currToken, nCtxUsed, auxVars>>

\* completionLoop, with the token the sampler returns, whether the backend
\* accepts the batch, and the microseconds ggml_time_us advances by between
\* its two readings.  A batch whose first position is not the next
\* free one is accepted or refused, as the backend build decides; reading a
\* dangling token pointer may also end the process.
CompletionLoop(tok, accept, dt) ==
    LET used == SeqPosMax(kv) + 1
        toks == BatchTokens(batch, promptTokens, currToken)
        kv1 == Decoded(kv, batch.pos, toks)
        piece == TokenToPiece(tok)
        buf == cacheResponseTokens \o piece
    IN
    /\ Alive
    /\ prev' = <<lastOp, lastRet>>
    /\ lastOp' = "step"
    /\ lastQuery' = <<>>
    /\ IF BatchMissing(batch)
       THEN /\ lastRet' = "NoActiveBatchError"
            /\ lastStr' = <<>>
            /\ UNCHANGED <<messages, currToken, batch, kv, response,
                           cacheResponseTokens, nCtxUsed, responseNumTokens,
                           responseGenerationTime, emitted, pushed>>
       ELSE IF ContextExceeded(used, batch.n)
       THEN /\ lastRet' = "ContextExceededError"
            /\ lastStr' = <<>>
            /\ nCtxUsed' = used
            /\ UNCHANGED <<messages, currToken, batch, kv, response,
                           cacheResponseTokens, responseNumTokens,
                           responseGenerationTime, emitted, pushed>>
       ELSE IF ~accept \/ batch.pos > Len(kv)
       THEN /\ lastRet' = (IF accept \/ batch.src # "dangling"
                           THEN "DecodeError" ELSE "crashed")
            /\ lastStr' = <<>>
            /\ nCtxUsed' = used
            /\ UNCHANGED <<messages, currToken, batch, kv, response,
                           cacheResponseTokens, responseNumTokens,
                           responseGenerationTime, emitted, pushed>>
       ELSE IF IsEog(tok)
       THEN /\ storeChats => Len(messages) < MaxMsgs
            /\ lastRet' = "ok"
            /\ lastStr' = Sentinel
            /\ nCtxUsed' = used
            /\ kv' = kv1
            /\ currToken' = tok
            /\ messages' = IF storeChats
                           THEN Append(messages, AssistantTurn(response))
                           ELSE messages
            /\ response' = <<>>
            /\ cacheResponseTokens' = <<>>
            /\ UNCHANGED <<batch, responseNumTokens, responseGenerationTime,
                           emitted, pushed>>
       ELSE /\ lastRet' = "ok"
            /\ nCtxUsed' = used
            /\ kv' = kv1
            /\ currToken' = tok
            /\ responseGenerationTime' = responseGenerationTime + dt
            /\ responseNumTokens' = responseNumTokens + 1
            /\ batch' = [n |-> 1, src |-> "curr", pos |-> SeqPosMax(kv1) + 1]
            /\ pushed' = pushed \o piece
            /\ IF IsValidUtf8(buf)
               THEN /\ response' = response \o buf
                    /\ cacheResponseTokens' = <<>>
                    /\ lastStr' = buf
                    /\ emitted' = emitted \o buf
               ELSE /\ cacheResponseTokens' = buf
                    /\ lastStr' = <<>>
                    /\ UNCHANGED <<response, emitted>>
            /\ UNCHANGED messages
    /\ UNCHANGED <<storeChats, tmpl, prevLen, formattedSize, promptTokens,
                   auxVars>>

StopCompletion ==
    LET pl == StopPrevLen(storeChats, messages) IN
    /\ Alive
    /\ prev' = <<lastOp, lastRet>>
    /\ lastOp' = "stop"
    /\ lastStr' = <<>>
    /\ lastQuery' = <<>>
    /\ prevLen' = pl
    /\ IF pl < 0
       THEN /\ lastRet' = "RenderError"
            /\ UNCHANGED <<response, cacheResponseTokens>>
       ELSE /\ lastRet' = "ok"
            /\ response' = <<>>
            /\ cacheResponseTokens' = <<>>
    /\ UNCHANGED <<storeChats, tmpl, messages, formattedSize, promptTokens,
                   currToken, batch, kv, nCtxUsed, responseNumTokens,
                   responseGenerationTime, emitted, pushed, auxVars>>

Step(vocab, times) ==
    \E tok \in vocab, accept \in BOOLEAN, dt \in times :
        CompletionLoop(tok, accept, dt)

Next ==
    \/ \E role \in Roles, content \in Contents : AddChatMessage(role, content)
    \/ \E query \in Queries : StartCompletion(query)
    \/ Step(CoreVocab, Tick)
    \/ StopCompletion

Spec == Init /\ [][Next]_vars

\* Generation on a handle: startCompletion and completionLoop only, with the
\* sampler ranging over byte-level pieces.
InitUtf8 == Init /\ tmpl = "chatml"

NextUtf8 ==
    \/ StartCompletion(<<>>)
    \/ Step(Utf8Vocab, Tick)

SpecUtf8 == InitUtf8 /\ [][NextUtf8]_vars

\* Pieces that are a whole character and the first byte of a three-byte one.
BufferVocab == {EOG, <<97>>, <<226>>}

\* Generation and turn end on a handle: startCompletion, completionLoop over
\* byte-level pieces, and stopCompletion.
NextBuffer ==
    \/ StartCompletion(<<>>)
    \/ Step(BufferVocab, Tick)
    \/ StopCompletion

SpecBuffer == InitUtf8 /\ [][NextBuffer]_vars

\* Tokens whose pieces are the text "[EOG]", whole and in two parts, beside
\* an ordinary character and the end-of-generation token.
SentinelVocab == {EOG, <<97>>, Sentinel, <<91>>, <<69, 79, 71, 93>>}

\* Generation on a handle whose vocabulary can spell the sentinel.
NextSentinel ==
    \/ StartCompletion(<<>>)
    \/ Step(SentinelVocab, Tick)

SpecSentinel == InitUtf8 /\ [][NextSentinel]_vars

\* Completions on a handle whose history grows by startCompletion and
\* completionLoop only, the template writing role markers or the turns'
\* contents alone.
InitPlain == Loaded /\ tmpl \in Templates \ {"unsupported"}

NextPlain ==
    \/ \E query \in Queries : StartCompletion(query)
    \/ Step(CoreVocab, Tick)
    \/ StopCompletion

SpecPlain == InitPlain /\ [][NextPlain]_vars

\* A handle as its constructor leaves it.
Constructed ==
    /\ storeChats = TRUE
    /\ tmpl = "none"
    /\ messages = <<>>
    /\ prevLen = 0
    /\ formattedSize = 0
    /\ promptTokens = <<>>
    /\ currToken = Unk
    /\ batch = NoBatch
    /\ kv = <<>>
    /\ response = <<>>
    /\ cacheResponseTokens = <<>>
    /\ nCtxUsed = 0
    /\ responseNumTokens = 0
    /\ responseGenerationTime = 0
    /\ metric = Ratio(0, 1)
    /\ loadArg = LongOf(0)
    /\ ctxParams = NoContext
    /\ disableThinking = FALSE
    /\ reasoningBudget = -1
    /\ sd = NoHandle
    /\ jni = NoCall
    /\ audio = NoAudio
    /\ lastQuery = <<>>
    /\ prev = <<"new", "ok">>
    /\ lastOp = "new"
    /\ lastRet = "ok"
    /\ lastStr = <<>>
    /\ emitted = <<>>
    /\ pushed = <<>>

\* loadModel on a fresh handle.
LoadModel(contextSize, persist, template, outcome) ==
    /\ lastOp = "new"
    /\ loadArg' = contextSize
    /\ prev' = <<lastOp, lastRet>>
    /\ lastOp' = "load"
    /\ lastStr' = <<>>
    /\ lastQuery' = <<>>
    /\ IF outcome # "ok"
       THEN /\ lastRet' = "LoadError"
            /\ UNCHANGED <<ctxParams, storeChats, tmpl, formattedSize,
                           messages, disableThinking, reasoningBudget>>
       ELSE /\ lastRet' = "ok"
            /\ ctxParams' = ContextParams(contextSize)
            /\ formattedSize' = Uint32ToInt(ContextParams(contextSize).n_ctx)
            /\ messages' = <<>>
            /\ tmpl' = template
            /\ storeChats' = persist
            /\ disableThinking' = FALSE
            /\ reasoningBudget' = -1
    /\ UNCHANGED <<prevLen, promptTokens, currToken, batch, kv, response,
                   cacheResponseTokens, nCtxUsed, responseNumTokens,
                   responseGenerationTime, metric, sd, jni, audio, emitted,
                   pushed>>

\* loadModel over its contextSize argument.
InitLoad == Constructed

NextLoad ==
    \E contextSize \in ContextSizes, persist \in BOOLEAN,
       template \in Templates, outcome \in LoadOutcomes :
        LoadModel(contextSize, persist, template, outcome)

SpecLoad == InitLoad /\ [][NextLoad]_vars

\* setReasoningOptions.
SetReasoningOptions(disable, budget) ==
    /\ Alive
    /\ disableThinking' = RequestedNoThink(disable, budget)
    /\ reasoningBudget' = budget
    /\ prev' = <<lastOp, lastRet>>
    /\ lastOp' = "options"
    /\ lastRet' = "ok"
    /\ lastStr' = <<>>
    /\ lastQuery' = <<>>
    /\ UNCHANGED <<storeChats, tmpl, messages, prevLen, formattedSize,
                   promptTokens, currToken, batch, kv, response,
                   cacheResponseTokens, nCtxUsed, responseNumTokens,
                   responseGenerationTime, metric, loadArg, ctxParams,
                   sd, jni, audio, emitted, pushed>>

\* Completions under the reasoning policy, the sampler ending each at its
\* first token.
InitReasoning == Loaded /\ tmpl = "chatml"

NextReasoning ==
    \/ \E disable \in BOOLEAN, budget \in Budgets :
          SetReasoningOptions(disable, budget)
    \/ \E query \in ReasoningQueries : StartCompletion(query)
    \/ Step({EOG}, Tick)
    \/ StopCompletion

SpecReasoning == InitReasoning /\ [][NextReasoning]_vars

\* getResponseTokensPerSecond.
GetResponseTokensPerSecond ==
    /\ Alive
    /\ metric' = TokensPerSecond(responseNumTokens, responseGenerationTime)
    /\ prev' = <<lastOp, lastRet>>
    /\ lastOp' = "tps"
    /\ lastRet' = "ok"
    /\ lastStr' = <<>>
    /\ lastQuery' = <<>>
    /\ UNCHANGED <<storeChats, tmpl, messages, prevLen, formattedSize,
                   promptTokens, currToken, batch, kv, response,
                   cacheResponseTokens, nCtxUsed, responseNumTokens,
                   responseGenerationTime, loadArg, ctxParams,
                   disableThinking, reasoningBudget, sd, jni, audio, emitted,
                   pushed>>

\* The throughput metric as a function of the two counters.
InitTps ==
    /\ \E t \in TokenCounts, el \in ElapsedTimes : Handle(t, el)
    /\ tmpl = "chatml"

NextTps == GetResponseTokensPerSecond

SpecTps == InitTps /\ [][NextTps]_vars

\* The generation metrics over completions whose steps take varying time.
InitMetrics == Loaded /\ tmpl = "chatml"

NextMetrics ==
    \/ \E query \in Queries : StartCompletion(query)
    \/ Step(CoreVocab, Elapsed)
    \/ StopCompletion

SpecMetrics == InitMetrics /\ [][NextMetrics]_vars

(* ------------------------------ binding ------------------------------- *)

\* The binding functions that call the engine inside try/catch.
Guarded == {"load", "step"}

\* What the host caller of a binding function gets when the engine
\* operation op it calls ends with ret: the function's return, a pending
\* IllegalStateException, or a native exception that leaves the function.
Delivered(op, ret) ==
    IF ret = "ok" THEN "returned"
    ELSE IF ret = "crashed" THEN "crashed"
    ELSE IF op \in Guarded THEN "IllegalStateException"
    ELSE "escaped"

\* The host still runs, and holds the handle a loadModel returned to it.
HostHolds(op, ret, template) ==
    /\ Delivered(op, ret) # "escaped"
    /\ ~(op = "load" /\ ret # "ok")
    /\ template # "none"

Java_io_aatricks_llmedge_SmolLM_loadModel(persist, template, outcome) ==
    LoadModel(LongOf(ContextSize), persist, template, outcome)

Java_io_aatricks_llmedge_SmolLM_startCompletion(prompt) ==
    /\ HostHolds(lastOp, lastRet, tmpl)
    /\ StartCompletion(prompt)

Java_io_aatricks_llmedge_SmolLM_completionLoop ==
    /\ HostHolds(lastOp, lastRet, tmpl)
    /\ Step(CoreVocab, Tick)

Java_io_aatricks_llmedge_SmolLM_stopCompletion ==
    /\ HostHolds(lastOp, lastRet, tmpl)
    /\ StopCompletion

\* The host driving the engine through the binding.
InitJni == Constructed

NextJni ==
    \/ \E persist \in BOOLEAN, template \in Templates \ {"bare"},
          outcome \in LoadOutcomes :
          Java_io_aatricks_llmedge_SmolLM_loadModel(persist, template, outcome)
    \/ \E prompt \in Queries :
          Java_io_aatricks_llmedge_SmolLM_startCompletion(prompt)
    \/ Java_io_aatricks_llmedge_SmolLM_completionLoop
    \/ Java_io_aatricks_llmedge_SmolLM_stopCompletion

SpecJni == InitJni /\ [][NextJni]_vars

(* --------------------------- video binding ---------------------------- *)

\* Arguments of nativeTxt2Vid, the step count sd_sample_params_init presets
\* (none in the test backend), and what the backend passes to the progress
\* hook.
VideoFrames == {0, 1, 4}
StepCounts == {0, 3}
DefaultSteps == {0, 20}
HookSteps == {0, 5, 13}
HookTotals == {0, 12}
HookTimes == {15}

\* Frame arrays generate_video can return: for each frame whether its data
\* pointer is non-null.
FrameCounts == 0 .. 4
FrameArrays == UNION {[1 .. n -> BOOLEAN] : n \in FrameCounts}

\* What GetEnv / AttachCurrentThread give the thread the hook runs on.
EnvStatus == {"ok", "attached", "attachFailed", "error"}

\* Where the conversion of the frames to Java arrays fails, if it does:
\* FindClass, NewObjectArray, NewByteArray or SetByteArrayRegion of frame at.
JavaFailures(n) ==
    {[kind |-> k, at |-> 0] : k \in {"none", "class", "array"}}
        \cup {[kind |-> k, at |-> i] : k \in {"bytes", "region"}, i \in 1 .. n}

\* The engine's state, which the video binding does not touch.
engineVars ==
    <<storeChats, tmpl, messages, prevLen, formattedSize, promptTokens,
      currToken, batch, kv, response, cacheResponseTokens, nCtxUsed,
      responseNumTokens, responseGenerationTime, prev, lastOp, lastRet,
      lastStr, lastQuery, emitted, pushed, metric, loadArg, ctxParams,
      disableThinking, reasoningBudget>>

\* int division for a positive divisor.
Quot(a, b) == IF a >= 0 THEN a \div b ELSE -((-a) \div b)

\* What a call leaves behind when it only returns.
Returned(call, op) ==
    [call EXCEPT !.op = op, !.exception = "none", !.result = "void",
                 !.resultLen = 0, !.array = FALSE, !.frames = <<>>,
                 !.bufferFrees = <<>>, !.arrayFrees = 0, !.raised = FALSE,
                 !.calls = <<>>, !.step = 0, !.env = "ok"]

\* throwJavaException, then return of nullptr or of nothing.
Thrown(call, op, class, result) ==
    [Returned(call, op) EXCEPT !.exception = class, !.result = result]

clearProgressCallback(handle) ==
    [handle EXCEPT !.progressCallbackGlobalRef = FALSE,
                   !.progressMethodID = FALSE,
                   !.currentFrame = 0, !.totalFrames = 0,
                   !.stepsPerFrame = 0, !.totalSteps = 0,
                   !.cancellationRequested = FALSE]

\* The frame index without the clamp to the last frame.
InferredFrameUnclamped(step, stepsPerFrame, totalFrames) ==
    Quot(step, stepsPerFrame)

\* The hook's inferredFrame.
InferredFrame(step, stepsPerFrame, totalFrames) ==
    IF Quot(step, stepsPerFrame) >= totalFrames
    THEN totalFrames - 1
    ELSE Quot(step, stepsPerFrame)

\* The hook calling the Java callback whatever the flag says.
CancelledNever(handle) == FALSE

\* The hook's cancellation test.
Cancelled(handle) == handle.cancellationRequested

\* sd_video_progress_wrapper on a non-null handle: whether it throws, the
\* handle it leaves and the onProgress invocations it makes.
Progress(handle, step, steps, time, env) ==
    LET totalFrames == IF handle.totalFrames > 0 THEN handle.totalFrames ELSE 1
        totalSteps == IF handle.totalSteps > 0 THEN handle.totalSteps ELSE steps
        stepsPerFrame ==
            IF handle.stepsPerFrame > 0
            THEN handle.stepsPerFrame
            ELSE IF totalFrames > 0
                 THEN Max(Quot(steps, totalFrames), 1)
                 ELSE steps
        after ==
            IF stepsPerFrame > 0
            THEN [handle EXCEPT !.currentFrame =
                      InferredFrame(step, stepsPerFrame, totalFrames)]
            ELSE handle
    IN
    IF Cancelled(handle)
    THEN [raised |-> TRUE, handle |-> handle, calls |-> <<>>]
    ELSE IF \/ ~handle.progressCallbackGlobalRef
            \/ ~handle.jvm
            \/ ~handle.progressMethodID
            \/ env \in {"attachFailed", "error"}
    THEN [raised |-> FALSE, handle |-> handle, calls |-> <<>>]
    ELSE [raised |-> FALSE, handle |-> after,
          calls |-> << <<IF step < totalSteps THEN step ELSE totalSteps,
                         totalSteps, after.currentFrame, handle.totalFrames,
                         time>> >>]

\* One more free notification for every non-null buffer of the frames.
FreedFromFirst(frames, frees, i) ==
    [k \in 1 .. Len(frames) |-> frees[k] + (IF frames[k] THEN 1 ELSE 0)]

\* The cleanup loops of nativeTxt2Vid: one more free notification for every
\* non-null buffer from frame i on.
FreedFrom(frames, frees, i) ==
    [k \in 1 .. Len(frames) |->
        frees[k] + (IF k >= i /\ frames[k] THEN 1 ELSE 0)]

\* The conversion loop of nativeTxt2Vid from frame i on, frees counting the
\* notifications so far.
RECURSIVE ConvertFrames(_, _, _, _)
ConvertFrames(frames, java, i, frees) ==
    IF i > Len(frames)
    THEN [exception |-> "none", result |-> "array",
          resultLen |-> Len(frames), bufferFrees |-> frees]
    ELSE IF ~frames[i]
    THEN [exception |-> "IllegalStateException", result |-> "null",
          resultLen |-> 0, bufferFrees |-> FreedFrom(frames, frees, i)]
    ELSE IF java = [kind |-> "bytes", at |-> i]
    THEN [exception |-> "OutOfMemoryError", result |-> "null",
          resultLen |-> 0, bufferFrees |-> FreedFrom(frames, frees, i)]
    ELSE IF java = [kind |-> "region", at |-> i]
    THEN [exception |-> "pending", result |-> "null",
          resultLen |-> 0, bufferFrees |-> FreedFrom(frames, frees, i)]
    ELSE ConvertFrames(frames, java, i + 1,
                       [frees EXCEPT ![i] = frees[i] + 1])

\* nativeTxt2Vid from the return of generate_video on: the exception left
\* pending, the result, and the free notifications.
FramesToJava(array, frames, java) ==
    LET none == [k \in 1 .. Len(frames) |-> 0] IN
    IF ~array \/ Len(frames) = 0
    THEN [exception |-> "IllegalStateException", result |-> "null",
          resultLen |-> 0, bufferFrees |-> none,
          arrayFrees |-> IF array THEN 1 ELSE 0]
    ELSE IF java.kind = "class"
    THEN [exception |-> "pending", result |-> "null", resultLen |-> 0,
          bufferFrees |-> FreedFrom(frames, none, 1), arrayFrees |-> 1]
    ELSE IF java.kind = "array"
    THEN [exception |-> "OutOfMemoryError", result |-> "null",
          resultLen |-> 0, bufferFrees |-> FreedFrom(frames, none, 1),
          arrayFrees |-> 1]
    ELSE [arrayFrees |-> 1] @@ ConvertFrames(frames, java, 1, none)

\* The exception class nativeTxt2Vid throws when generate_video threw.
AbortClass(handle) ==
    IF handle.cancellationRequested
    THEN "CancellationException"
    ELSE "RuntimeException"

\* The host holds no deleted handle and no call on it is in flight.
Idle == jni.handlePtr # "deleted" /\ jni.pc = "idle"

\* nativeCreate: a handle with a diffusion context, a T5-only handle, or 0.
Java_io_aatricks_llmedge_StableDiffusion_nativeCreate(made) ==
    /\ jni.handlePtr # "live"
    /\ jni.pc = "idle"
    /\ IF made = "none"
       THEN /\ jni' = [Returned(jni, "create") EXCEPT !.handlePtr = "null",
                                                      !.result = "null"]
            /\ sd' = NoHandle
       ELSE /\ jni' = [Returned(jni, "create") EXCEPT !.handlePtr = "live",
                                                      !.result = "handle"]
            /\ sd' = [NoHandle EXCEPT !.ctx = (made = "diffusion"),
                                      !.jvm = TRUE]
    /\ UNCHANGED <<audio, engineVars>>

Java_io_aatricks_llmedge_StableDiffusion_nativeDestroy ==
    /\ Idle
    /\ IF jni.handlePtr = "null"
       THEN /\ jni' = Returned(jni, "destroy")
            /\ UNCHANGED sd
       ELSE /\ jni' = [Returned(jni, "destroy") EXCEPT
                          !.handlePtr = "deleted",
                          !.progressCb = FALSE,
                          !.globalRefs =
                              IF sd.progressCallbackGlobalRef
                              THEN jni.globalRefs - 1
                              ELSE jni.globalRefs]
            /\ sd' = [clearProgressCallback(sd) EXCEPT !.ctx = FALSE]
    /\ UNCHANGED <<audio, engineVars>>

\* nativeSetProgressCallback with a callback object (cb) or null; lookup tells
\* which of GetObjectClass, GetMethodID and NewGlobalRef fails, if any.
Java_io_aatricks_llmedge_StableDiffusion_nativeSetProgressCallback(cb, lookup) ==
    LET cleared == clearProgressCallback(sd)
        refs == IF sd.progressCallbackGlobalRef
                THEN jni.globalRefs - 1
                ELSE jni.globalRefs
        fails == [class |-> "IllegalArgumentException",
                  method |-> "NoSuchMethodError",
                  ref |-> "OutOfMemoryError"]
    IN
    /\ Idle
    /\ IF jni.handlePtr = "null"
       THEN /\ jni' = Thrown(jni, "callback", "IllegalStateException", "void")
            /\ UNCHANGED sd
       ELSE IF ~cb
       THEN /\ jni' = [Returned(jni, "callback") EXCEPT
                          !.progressCb = FALSE, !.globalRefs = refs]
            /\ sd' = cleared
       ELSE IF lookup # "ok"
       THEN /\ jni' = [Thrown(jni, "callback", fails[lookup], "void") EXCEPT
                          !.globalRefs = refs]
            /\ sd' = cleared
       ELSE /\ jni' = [Returned(jni, "callback") EXCEPT
                          !.progressCb = TRUE, !.globalRefs = refs + 1]
            /\ sd' = [cleared EXCEPT !.progressCallbackGlobalRef = TRUE,
                                     !.progressMethodID = TRUE,
                                     !.cancellationRequested = FALSE]
    /\ UNCHANGED <<audio, engineVars>>

\* nativeCancelGeneration, from any thread.
Java_io_aatricks_llmedge_StableDiffusion_nativeCancelGeneration ==
    /\ jni.handlePtr # "deleted"
    /\ jni' = [jni EXCEPT !.op = "cancel"]
    /\ sd' = IF jni.handlePtr = "null"
             THEN sd
             ELSE [sd EXCEPT !.cancellationRequested = TRUE]
    /\ UNCHANGED <<audio, engineVars>>

\* nativeTxt2Vid up to its call of generate_video.  sizes tells whether
\* width and height are positive, preset is the step count the backend
\* presets, image whether reading the init image leaves an exception.
nativeTxt2Vid_Enter(sizes, videoFrames, steps, preset, image) ==
    LET sample_steps == IF steps > 0 THEN steps ELSE preset
        stepsPerFrame == IF sample_steps > 0 THEN sample_steps ELSE 0
        totalFrames == Max(1, videoFrames)
        entered == [sd EXCEPT !.cancellationRequested = FALSE,
                              !.totalFrames = totalFrames,
                              !.currentFrame = 0]
    IN
    /\ Idle
    /\ IF jni.handlePtr = "null"
       THEN /\ jni' = Thrown(jni, "txt2vid", "IllegalStateException", "null")
            /\ UNCHANGED sd
       ELSE IF ~sizes \/ videoFrames <= 0
       THEN /\ jni' = Thrown(jni, "txt2vid", "IllegalArgumentException",
                             "null")
            /\ UNCHANGED sd
       ELSE IF ~sd.ctx
       THEN /\ jni' = Thrown(jni, "txt2vid", "IllegalStateException", "null")
            /\ UNCHANGED sd
       ELSE IF image
       THEN /\ jni' = Thrown(jni, "txt2vid", "pending", "null")
            /\ sd' = entered
       ELSE /\ jni' = [Returned(jni, "generate") EXCEPT
                          !.pc = "generating",
                          !.progressCb =
                              IF sd.progressCallbackGlobalRef
                              THEN jni.progressCb
                              ELSE TRUE]
            /\ sd' = [entered EXCEPT
                         !.stepsPerFrame = stepsPerFrame,
                         !.totalSteps = stepsPerFrame * totalFrames]
    /\ UNCHANGED <<audio, engineVars>>

\* The backend calling the progress hook it was given, inside generate_video.
sd_video_progress_wrapper(step, steps, time, env) ==
    LET out == Progress(sd, step, steps, time, env) IN
    /\ jni.handlePtr = "live"
    /\ jni.pc = "generating"
    /\ jni.progressCb
    /\ jni' = [Returned(jni, "hook") EXCEPT
                  !.pc = IF out.raised THEN "aborting" ELSE "generating",
                  !.raised = out.raised,
                  !.calls = out.calls,
                  !.step = step,
                  !.env = env]
    /\ sd' = out.handle
    /\ UNCHANGED <<audio, engineVars>>

\* generate_video throws: the exception of the hook, or one of its own.
nativeTxt2Vid_Catch ==
    /\ jni.handlePtr = "live"
    /\ jni.pc \in {"generating", "aborting"}
    /\ jni' = [Thrown(jni, "txt2vid", AbortClass(sd), "null") EXCEPT
                  !.pc = "idle", !.raised = (jni.pc = "aborting")]
    /\ UNCHANGED <<sd, audio, engineVars>>

\* generate_video returns a frame array (or null), and nativeTxt2Vid turns
\* it into a Java array.
nativeTxt2Vid_Return(array, frames, java) ==
    LET out == FramesToJava(array, frames, java) IN
    /\ jni.handlePtr = "live"
    /\ jni.pc = "generating"
    /\ jni' = [Returned(jni, "txt2vid") EXCEPT
                  !.pc = "idle",
                  !.progressCb = IF sd.progressCallbackGlobalRef
                                 THEN jni.progressCb
                                 ELSE FALSE,
                  !.exception = out.exception,
                  !.result = out.result,
                  !.resultLen = out.resultLen,
                  !.array = array,
                  !.frames = frames,
                  !.bufferFrees = out.bufferFrees,
                  !.arrayFrees = out.arrayFrees]
    /\ sd' = IF out.result = "array"
             THEN [sd EXCEPT !.cancellationRequested = FALSE]
             ELSE sd
    /\ UNCHANGED <<audio, engineVars>>

\* The host and the backend driving the video binding.
InitVideo == Constructed

NextVideo ==
    \/ \E made \in {"diffusion", "t5", "none"} :
          Java_io_aatricks_llmedge_StableDiffusion_nativeCreate(made)
    \/ Java_io_aatricks_llmedge_StableDiffusion_nativeDestroy
    \/ \E cb \in BOOLEAN, lookup \in {"ok", "class", "method", "ref"} :
          Java_io_aatricks_llmedge_StableDiffusion_nativeSetProgressCallback(
              cb, lookup)
    \/ Java_io_aatricks_llmedge_StableDiffusion_nativeCancelGeneration
    \/ \E sizes \in BOOLEAN, videoFrames \in VideoFrames,
          steps \in StepCounts, preset \in DefaultSteps, image \in BOOLEAN :
          nativeTxt2Vid_Enter(sizes, videoFrames, steps, preset, image)
    \/ \E step \in HookSteps, steps \in HookTotals, time \in HookTimes,
          env \in EnvStatus :
          sd_video_progress_wrapper(step, steps, time, env)
    \/ nativeTxt2Vid_Catch
    \/ \E array \in BOOLEAN, frames \in FrameArrays :
          \E java \in JavaFailures(Len(frames)) :
              nativeTxt2Vid_Return(array, frames, java)

SpecVideo == InitVideo /\ [][NextVideo]_vars

\* nativeSetProgressCallback, nativeDestroy or nativeTxt2Vid running on
\* another handle of the process, from any thread: each calls
\* sd_set_progress_callback, after which the backend's one hook is null or
\* carries that other handle, not this one.
sd_set_progress_callback_OtherHandle ==
    /\ jni.handlePtr = "live"
    /\ jni' = [jni EXCEPT !.progressCb = FALSE]
    /\ UNCHANGED <<sd, audio, engineVars>>

\* The video binding with more than one handle alive in the process.
NextHandles ==
    \/ NextVideo
    \/ sd_set_progress_callback_OtherHandle

SpecHandles == InitVideo /\ [][NextHandles]_vars

\* nativeTxt2Vid with valid arguments on a handle with a diffusion context,
\* from its entry to the point where it is about to clear the cancellation
\* flag: the argument and context tests have passed, nothing is written yet.
nativeTxt2Vid_Called ==
    /\ Idle
    /\ jni.handlePtr = "live"
    /\ sd.ctx
    /\ jni' = [Returned(jni, "call") EXCEPT !.pc = "entered"]
    /\ UNCHANGED <<sd, audio, engineVars>>

\* nativeTxt2Vid from the store that clears the cancellation flag to its
\* call of generate_video.
nativeTxt2Vid_Store(videoFrames, steps, preset) ==
    LET sample_steps == IF steps > 0 THEN steps ELSE preset
        stepsPerFrame == IF sample_steps > 0 THEN sample_steps ELSE 0
        totalFrames == Max(1, videoFrames)
    IN
    /\ jni.handlePtr = "live"
    /\ jni.pc = "entered"
    /\ videoFrames > 0
    /\ jni' = [Returned(jni, "generate") EXCEPT
                  !.pc = "generating",
                  !.progressCb = IF sd.progressCallbackGlobalRef
                                 THEN jni.progressCb
                                 ELSE TRUE]
    /\ sd' = [sd EXCEPT !.cancellationRequested = FALSE,
                        !.totalFrames = totalFrames,
                        !.currentFrame = 0,
                        !.stepsPerFrame = stepsPerFrame,
                        !.totalSteps = stepsPerFrame * totalFrames]
    /\ UNCHANGED <<audio, engineVars>>

\* The video binding with nativeCancelGeneration arriving from another
\* thread between any two steps of a nativeTxt2Vid call.
NextCancel ==
    \/ \E made \in {"diffusion", "t5"} :
          Java_io_aatricks_llmedge_StableDiffusion_nativeCreate(made)
    \/ \E cb \in BOOLEAN :
          Java_io_aatricks_llmedge_StableDiffusion_nativeSetProgressCallback(
              cb, "ok")
    \/ Java_io_aatricks_llmedge_StableDiffusion_nativeCancelGeneration
    \/ nativeTxt2Vid_Called
    \/ \E videoFrames \in VideoFrames, steps \in StepCounts,
          preset \in DefaultSteps :
          nativeTxt2Vid_Store(videoFrames, steps, preset)
    \/ \E step \in HookSteps, steps \in HookTotals, time \in HookTimes,
          env \in EnvStatus :
          sd_video_progress_wrapper(step, steps, time, env)
    \/ nativeTxt2Vid_Catch
    \/ \E array \in BOOLEAN, frames \in FrameArrays :
          \E java \in JavaFailures(Len(frames)) :
              nativeTxt2Vid_Return(array, frames, java)

SpecCancel == InitVideo /\ [][NextCancel]_vars

\* getContextSizeUsed(): the value completionLoop last stored in _nCtxUsed.
getContextSizeUsed == nCtxUsed

(* --------------------------- audio bindings --------------------------- *)

\* Everything the audio bindings leave alone.
nonAudioVars == <<sd, jni, engineVars>>

\* The native methods of a handle that take its mutex.
AudioOps(kind) ==
    IF kind = "whisper"
    THEN {"nativeDestroy", "nativeSetProgressCallback",
          "nativeSetSegmentCallback", "nativeTranscribe"}
    ELSE IF kind = "bark"
    THEN {"nativeDestroy", "nativeSetProgressCallback"}
    ELSE {}

\* The thread's lock_guard is alive: it holds the handle's mutex.
HoldsMutex(t) == audio.thread[t].pc \in {"locked", "running", "unlock"}

\* The global reference NewGlobalRef makes for a callback object.
NewGlobalRef(slot, cb) == IF cb = 0 THEN <<>> ELSE <<slot, cb>>

\* nativeCreate: a new handle around a context that was loaded.
AudioCreate(kind) ==
    /\ audio.handle = "null"
    /\ audio' = [NoAudio EXCEPT !.kind = kind, !.handle = "live",
                                !.ctx = TRUE]
    /\ UNCHANGED nonAudioVars

\* A thread enters a native method with the pointer of the handle, up to
\* the construction of its lock_guard.
AudioEnter(t, op, cb) ==
    /\ audio.handle = "live"
    /\ audio.ctx
    /\ audio.thread[t].pc = "idle"
    /\ op \in AudioOps(audio.kind)
    /\ cb # 0 => op \in {"nativeSetProgressCallback", "nativeSetSegmentCallback"}
    /\ audio' = [audio EXCEPT !.thread[t] =
                     [NoAudioCall EXCEPT !.pc = "lock", !.op = op, !.cb = cb]]
    /\ UNCHANGED nonAudioVars

\* std::lock_guard's constructor: mutex.lock(). On a live handle it waits
\* for the mutex to be free; the mutex of a freed handle is storage of
\* unknown content, which may read as free.
lock_guard_ctor(t) ==
    /\ audio.thread[t].pc = "lock"
    /\ audio.handle = "live" => audio.mutex = 0
    /\ audio' = [audio EXCEPT !.mutex = t, !.thread[t].pc = "locked"]
    /\ UNCHANGED nonAudioVars

\* std::lock_guard's destructor at the end of the scope: mutex.unlock().
lock_guard_dtor(t) ==
    /\ audio.thread[t].pc = "unlock"
    /\ audio' = [audio EXCEPT !.mutex = 0, !.thread[t] = NoAudioCall]
    /\ UNCHANGED nonAudioVars

\* A thread that touches a freed handle may also fault.
AudioUseAfterFree(t) ==
    /\ audio.handle = "freed"
    /\ audio.thread[t].pc \in {"lock", "locked", "running", "unlock"}
    /\ audio' = [audio EXCEPT !.thread[t].pc = "faulted"]
    /\ UNCHANGED nonAudioVars

\* nativeDestroy under the lock: the references are deleted, the context
\* and then the handle are freed, and the lock_guard is still in scope.
Audio_nativeDestroy(t) ==
    /\ audio.thread[t].pc = "locked"
    /\ audio.thread[t].op = "nativeDestroy"
    /\ audio' = [audio EXCEPT
                     !.globalRefs = @ \ {audio.progressCallbackGlobalRef,
                                         audio.segmentCallbackGlobalRef},
                     !.ctx = FALSE,
                     !.handle = "freed",
                     !.thread[t].pc = "unlock"]
    /\ UNCHANGED nonAudioVars

\* nativeSetProgressCallback under the lock.
Audio_nativeSetProgressCallback(t) ==
    /\ audio.thread[t].pc = "locked"
    /\ audio.thread[t].op = "nativeSetProgressCallback"
    /\ LET ref == NewGlobalRef("progress", audio.thread[t].cb)
       IN audio' = [audio EXCEPT
                        !.globalRefs = (@ \ {audio.progressCallbackGlobalRef})
                                           \cup ({ref} \ {<<>>}),
                        !.progressCallbackGlobalRef = ref,
                        !.thread[t].pc = "unlock"]
    /\ UNCHANGED nonAudioVars

\* Whisper's nativeSetSegmentCallback under the lock.
Whisper_nativeSetSegmentCallback(t) ==
    /\ audio.thread[t].pc = "locked"
    /\ audio.thread[t].op = "nativeSetSegmentCallback"
    /\ LET ref == NewGlobalRef("segment", audio.thread[t].cb)
       IN audio' = [audio EXCEPT
                        !.globalRefs = (@ \ {audio.segmentCallbackGlobalRef})
                                           \cup ({ref} \ {<<>>}),
                        !.segmentCallbackGlobalRef = ref,
                        !.thread[t].pc = "unlock"]
    /\ UNCHANGED nonAudioVars

\* Whisper's nativeTranscribe under the lock, up to the call of
\* whisper_full: the wrappers are wired for the callbacks registered now.
Whisper_nativeTranscribe(t) ==
    /\ audio.thread[t].pc = "locked"
    /\ audio.thread[t].op = "nativeTranscribe"
    /\ audio' = [audio EXCEPT !.thread[t] =
                     [@ EXCEPT !.pc = "running",
                               !.progress_callback =
                                   audio.progressCallbackGlobalRef # <<>>,
                               !.new_segment_callback =
                                   audio.segmentCallbackGlobalRef # <<>>,
                               !.seen = <<audio.progressCallbackGlobalRef,
                                          audio.segmentCallbackGlobalRef>>]]
    /\ UNCHANGED nonAudioVars

\* whisper_full reports progress: the wrapper calls the reference the handle
\* holds at that moment.
whisper_progress_callback_wrapper(t) ==
    /\ audio.thread[t].pc = "running"
    /\ audio.thread[t].progress_callback
    /\ audio.progressCallbackGlobalRef # <<>>
    /\ audio.progressCallbackGlobalRef \notin audio.thread[t].reported
    /\ audio' = [audio EXCEPT !.thread[t].reported =
                                  @ \cup {audio.progressCallbackGlobalRef}]
    /\ UNCHANGED nonAudioVars

\* whisper_full reports a segment.
whisper_new_segment_callback_wrapper(t) ==
    /\ audio.thread[t].pc = "running"
    /\ audio.thread[t].new_segment_callback
    /\ audio.segmentCallbackGlobalRef # <<>>
    /\ audio.segmentCallbackGlobalRef \notin audio.thread[t].reported
    /\ audio' = [audio EXCEPT !.thread[t].reported =
                                  @ \cup {audio.segmentCallbackGlobalRef}]
    /\ UNCHANGED nonAudioVars

\* whisper_full has returned and the segments are collected.
Whisper_nativeTranscribe_Return(t) ==
    /\ audio.thread[t].pc = "running"
    /\ audio' = [audio EXCEPT !.thread[t].pc = "unlock"]
    /\ UNCHANGED nonAudioVars

InitAudio == Constructed

NextAudio ==
    \/ \E kind \in {"whisper", "bark"} : AudioCreate(kind)
    \/ \E t \in AudioThreads, cb \in AudioCallbacks :
           \E op \in AudioOps(audio.kind) : AudioEnter(t, op, cb)
    \/ \E t \in AudioThreads : lock_guard_ctor(t)
    \/ \E t \in AudioThreads : Audio_nativeDestroy(t)
    \/ \E t \in AudioThreads : Audio_nativeSetProgressCallback(t)
    \/ \E t \in AudioThreads : Whisper_nativeSetSegmentCallback(t)
    \/ \E t \in AudioThreads : Whisper_nativeTranscribe(t)
    \/ \E t \in AudioThreads : whisper_progress_callback_wrapper(t)
    \/ \E t \in AudioThreads : whisper_new_segment_callback_wrapper(t)
    \/ \E t \in AudioThreads : Whisper_nativeTranscribe_Return(t)
    \/ \E t \in AudioThreads : lock_guard_dtor(t)
    \/ \E t \in AudioThreads : AudioUseAfterFree(t)

SpecAudio == InitAudio /\ [][NextAudio]_vars

(* ------------------------- properties: helpers ------------------------ *)

Front(seq) == SubSeq(seq, 1, Len(seq) - 1)
Last(seq) == seq[Len(seq)]

\* The system turns of a history, in order.
RECURSIVE SystemTurns(_)
SystemTurns(ms) ==
    IF ms = <<>> THEN <<>>
    ELSE IF Head(ms).role = "system" THEN <<Head(ms)>> \o SystemTurns(Tail(ms))
    ELSE SystemTurns(Tail(ms))

\* The text a token list stands for: its tokens' codes, start-of-sequence
\* marker aside.
RECURSIVE TokensText(_)
TokensText(toks) ==
    IF toks = <<>> THEN <<>>
    ELSE IF Head(toks) = BOS THEN TokensText(Tail(toks))
    ELSE Head(toks) \o TokensText(Tail(toks))

\* The number of bytes of the character a leading byte opens (0: none), by
\* the standard UTF-8 leading-byte patterns.
CharLen(b) ==
    IF b \in 0..127 THEN 1
    ELSE IF b \in 192..223 THEN 2
    ELSE IF b \in 224..239 THEN 3
    ELSE IF b \in 240..247 THEN 4
    ELSE 0

\* s, over its entire length, is a sequence of complete characters: each
\* leading byte followed by all its continuation bytes (10xxxxxx).
RECURSIVE WellFormedFrom(_, _)
WellFormedFrom(s, i) ==
    IF i > Len(s) THEN TRUE
    ELSE /\ CharLen(s[i]) > 0
         /\ i + CharLen(s[i]) - 1 <= Len(s)
         /\ \A k \in 1..(CharLen(s[i]) - 1) : s[i + k] \in 128..191
         /\ WellFormedFrom(s, i + CharLen(s[i]))

WellFormedUtf8(s) == WellFormedFrom(s, 1)

\* s is complete characters followed by the first bytes, not all, of one more.
EndsMidCharacter(s) ==
    \E i \in 1..Len(s) :
        /\ WellFormedUtf8(SubSeq(s, 1, i - 1))
        /\ CharLen(s[i]) > Len(s) - i + 1
        /\ \A k \in (i + 1)..Len(s) : s[k] \in 128..191

\* The system turns a history begins with, up to its first other turn.
RECURSIVE LeadingSystemTurns(_)
LeadingSystemTurns(ms) ==
    IF ms = <<>> \/ Head(ms).role # "system" THEN <<>>
    ELSE <<Head(ms)>> \o LeadingSystemTurns(Tail(ms))

\* s is what t begins with.
IsPrefix(s, t) == Len(s) <= Len(t) /\ SubSeq(t, 1, Len(s)) = s

\* No bytes appended to s make it a sequence of complete characters.
Unrecoverable(s) == ~WellFormedUtf8(s) /\ ~EndsMidCharacter(s)

\* The tokens one turn renders to.
TurnTokens(m) == Tokenize(RenderTurn(m), FALSE)

\* Every turn the host supplied occurs in the cache.
AllTurnsFed(ms, cache) ==
    \A i \in 1..Len(ms) :
        ms[i].role # "assistant" => OccursIn(TurnTokens(ms[i]), cache)

(* ------------------------------ properties ---------------------------- *)

\* C1: with persistence disabled, the turn list startCompletion renders is
\* the system turns of the history, in order, followed by the single new
\* user turn: no non-system turn added before the call is left.
C1_ResetBeforeRender ==
    [][(lastOp' = "start" /\ ~storeChats) =>
          /\ Len(messages') >= 1
          /\ Last(messages').role = "user"
          /\ Front(messages') = SystemTurns(messages)]_vars

\* C1 witness: persistence disabled, a second startCompletion after a turn
\* that was decoded; a system turn survives and the earlier user turn is gone.
C1_Witness ==
    /\ lastOp = "start"
    /\ ~storeChats
    /\ nCtxUsed > 0
    /\ Len(messages) = 2
    /\ messages[1].role = "system"

\* C2: with persistence enabled prevLen is written by stopCompletion alone,
\* to the length of the final rendering of the history; and the
\* startCompletion that follows a stopCompletion tokenizes exactly the
\* rendered text from that length to the new rendered length.
C2_PrefixAdvancesOnce ==
    [][storeChats =>
          /\ lastOp' \in {"add", "start", "step"} => prevLen' = prevLen
          /\ (lastOp' = "stop" /\ lastRet' = "ok") =>
                prevLen' = Len(RenderText(messages, FALSE))
          /\ (lastOp = "stop" /\ lastRet = "ok" /\ lastOp' = "start"
                /\ lastRet' = "ok") =>
                TokensText(promptTokens') =
                    SubSeq(RenderText(messages', TRUE),
                           Len(RenderText(messages, FALSE)) + 1,
                           Len(RenderText(messages', TRUE)))]_vars

\* C2 witness: a turn that ended with an assistant turn committed, then
\* stopCompletion, then a successful startCompletion.
C2_Witness ==
    /\ storeChats
    /\ prev = <<"stop", "ok">>
    /\ lastOp = "start"
    /\ lastRet = "ok"
    /\ Len(messages) = 3
    /\ messages[2].role = "assistant"
    /\ prevLen > 0

\* C3: a step whose staged batch does not fit behind the committed cache
\* positions fails with ContextExceededError and leaves the cache, the
\* history, prevLen and the staged batch as they were.
C3_ContextOverflowIsHardStop ==
    [][(lastOp' = "step" /\ batch.src # "null" /\ batch.n >= 1
          /\ Len(kv) + batch.n > ContextSize) =>
          /\ lastRet' = "ContextExceededError"
          /\ UNCHANGED <<kv, messages, prevLen, batch, promptTokens,
                         currToken>>]_vars

\* C3 witness: the first step of a turn whose prompt alone exceeds the window.
C3_Witness ==
    /\ lastOp = "step"
    /\ lastRet = "ContextExceededError"
    /\ prev = <<"start", "ok">>
    /\ kv = <<>>
    /\ batch.n > ContextSize

\* C4: whenever the pieces pushed since startCompletion form a well-formed
\* string, the fragments returned so far concatenate to exactly that string;
\* and a push after which the accumulated bytes end in the middle of a
\* character returns the empty string.
C4_RoundTrip ==
    /\ WellFormedUtf8(pushed) => emitted = pushed
    /\ (lastOp = "step" /\ lastRet = "ok" /\ ~IsEog(currToken)
          /\ EndsMidCharacter(lastStr \o cacheResponseTokens))
          => lastStr = <<>>

\* C5: every non-empty, non-sentinel string completionLoop returns is, over
\* its entire length, a sequence of complete well-formed characters.
C5_NoTruncatedCharacter ==
    (lastOp = "step" /\ lastRet = "ok" /\ lastStr # <<>>
       /\ lastStr # Sentinel) => WellFormedUtf8(lastStr)

\* C6: a step that samples an end-of-generation token returns the sentinel
\* with the response accumulator and the boundary buffer empty and, with
\* persistence enabled, the last turn of the history is an assistant turn
\* holding the concatenation of the fragments returned since
\* startCompletion.
C6_EogCommitsFragments ==
    (lastOp = "step" /\ lastRet = "ok" /\ IsEog(currToken)) =>
        /\ lastStr = Sentinel
        /\ response = <<>>
        /\ cacheResponseTokens = <<>>
        /\ storeChats =>
              /\ messages # <<>>
              /\ Last(messages) = Message("assistant", emitted)

C8_StopAlwaysSafe ==
    [][/\ (lastOp' = "stop" /\ tmpl # "unsupported") => lastRet' = "ok"
       /\ (prev[1] = "stop" /\ lastOp = "start" /\ lastRet = "ok"
             /\ lastOp' = "step" /\ lastRet' = "ok")
             => AllTurnsFed(messages, kv')]_vars

\* C9: only a successful startCompletion stages a batch, a staged batch has
\* at least one token, and a step without one fails with NoActiveBatchError
\* and changes nothing of the engine.
C9_NoActiveBatch ==
    [][/\ (batch.src = "null" /\ batch'.src # "null") =>
             (lastOp' = "start" /\ lastRet' = "ok")
       /\ batch'.src # "null" => batch'.n >= 1
       /\ (lastOp' = "step" /\ batch.src = "null") =>
             /\ lastRet' = "NoActiveBatchError"
             /\ UNCHANGED <<messages, prevLen, formattedSize, promptTokens,
                            currToken, batch, kv, response,
                            cacheResponseTokens, nCtxUsed,
                            responseNumTokens>>]_vars

\* C9 witness: a step after the only startCompletion so far has failed.
C9_Witness ==
    /\ lastOp = "step"
    /\ lastRet = "NoActiveBatchError"
    /\ prev = <<"start", "RenderError">>
    /\ batch = NoBatch

\* C10: a startCompletion whose suffix tokenizes to no token fails with
\* EmptyPromptError and stages nothing; one whose suffix tokenizes to at least
\* one token succeeds and stages exactly those tokens, also after a failure.
C10_EmptyPromptRejected ==
    [][(lastOp' = "start" /\ tmpl # "unsupported") =>
          LET text == RenderText(messages', TRUE)
              toks == Tokenize(SubSeq(text, prevLen' + 1, Len(text)),
                               prevLen' = 0)
          IN IF Len(toks) = 0
             THEN /\ lastRet' = "EmptyPromptError"
                  /\ batch'.n = batch.n
                  /\ batch'.pos = batch.pos
                  /\ kv' = kv
             ELSE /\ lastRet' = "ok"
                  /\ batch'.src = "prompt"
                  /\ batch'.n = Len(toks)
                  /\ promptTokens' = toks]_vars

\* C10 witness: a successful startCompletion right after one that failed
\* with EmptyPromptError.
C10_Witness ==
    /\ prev = <<"start", "EmptyPromptError">>
    /\ lastOp = "start"
    /\ lastRet = "ok"

\* C11: the value getResponseTokensPerSecond returns is 0 when either counter
\* is zero or negative; when both are positive it is a finite number, the
\* binary32 value of tokens * 1000000 / elapsed: that quotient itself when it
\* is a whole number, and within one rounding of it otherwise.  Elapsed 0 with
\* 5 tokens gives 0; elapsed 1000000 with 10 tokens gives 10.
C11_TokensPerSecond ==
    lastOp = "tps" =>
        LET t == responseNumTokens
            el == responseGenerationTime
        IN /\ (t <= 0 \/ el <= 0) => metric = Ratio(0, 1)
           /\ (t > 0 /\ el > 0) =>
                 /\ metric.den > 0
                 /\ (t * Million) % el = 0 =>
                       metric = Ratio((t * Million) \div el, 1)
                 /\ Abs(metric.num * el - t * Million * metric.den)
                       <= (t * Million * metric.den) \div Significand
           /\ (el = 0 /\ t = 5) => metric = Ratio(0, 1)
           /\ (el = Million /\ t = 10) => metric = Ratio(10, 1)

\* C11 witness: the metric read with 10 tokens emitted in one second.
C11_Witness ==
    /\ lastOp = "tps"
    /\ responseNumTokens = 10
    /\ responseGenerationTime = Million
    /\ metric = Ratio(10, 1)

\* C12: every startCompletion sets the emitted-token count and the elapsed
\* decode time to 0; a step that returns a fragment or the empty string adds
\* one to the count and its decode time to the elapsed time; a step that
\* returns the sentinel or fails, and every other operation, leaves both.
C12_MetricsPerTurn ==
    [][/\ lastOp' = "start" =>
             (responseNumTokens' = 0 /\ responseGenerationTime' = 0)
       /\ (lastOp' = "step" /\ lastRet' = "ok" /\ lastStr' # Sentinel) =>
             /\ responseNumTokens' = responseNumTokens + 1
             /\ responseGenerationTime' - responseGenerationTime \in Elapsed
       /\ (lastOp' = "step" /\ (lastRet' # "ok" \/ lastStr' = Sentinel)) =>
             UNCHANGED <<responseNumTokens, responseGenerationTime>>
       /\ lastOp' = "stop" =>
             UNCHANGED <<responseNumTokens, responseGenerationTime>>]_vars

\* C12 witness: a startCompletion right after a step that emitted a token:
\* the counters of the completion before it are gone.
C12_Witness ==
    /\ lastOp = "start"
    /\ prev = <<"step", "ok">>
    /\ currToken = <<97>>
    /\ nCtxUsed > 0
    /\ responseNumTokens = 0
    /\ responseGenerationTime = 0

\* C13: after a successful load the context size is the contextSize argument
\* clamped into 1..2^32-1 and the batch width is the smaller of that clamped
\* value and 512.
C13_LoadClamp ==
    (lastOp = "load" /\ lastRet = "ok") =>
        LET clamped == IF Less(loadArg, LongOf(1)) THEN LongOf(1)
                       ELSE IF Less(Uint32Max, loadArg) THEN Uint32Max
                       ELSE loadArg
        IN /\ ctxParams.n_ctx = <<clamped[3], clamped[4]>>
           /\ ctxParams.n_batch = IF Less(clamped, LongOf(512))
                                  THEN <<clamped[3], clamped[4]>>
                                  ELSE IntOf(512)

\* C14: the user turn startCompletion appends holds, when suppression is
\* active and the query lacks the marker, the marker followed by a newline
\* and the query (the marker alone for the empty query), and the query
\* unchanged otherwise; the staged positions and the cache handling are
\* those of any other start, whatever the policy, and no completion
\* operation writes the policy.
C14_QueryPreprocessing ==
    [][/\ lastOp' = "start" =>
             LET active == disableThinking \/ reasoningBudget = 0
                 query == lastQuery'
             IN /\ Last(messages').role = "user"
                /\ Last(messages').content =
                      IF active /\ ~OccursIn(Marker, query)
                      THEN IF query # <<>>
                           THEN Marker \o Newline \o query
                           ELSE Marker
                      ELSE query
                /\ lastRet' = "ok"
                /\ batch' = [n |-> Len(promptTokens'), src |-> "prompt",
                             pos |-> NPast(storeChats, prevLen', kv)]
                /\ kv' = CacheAfterStart(storeChats, prevLen', kv)
       /\ lastOp' \in {"start", "step", "stop"} =>
             UNCHANGED <<disableThinking, reasoningBudget>>]_vars

\* C14 witness: a startCompletion with a non-empty query under suppression.
C14_Witness ==
    /\ lastOp = "start"
    /\ disableThinking
    /\ lastQuery = <<97>>
    /\ Last(messages).content = Marker \o Newline \o <<97>>
    /\ Len(messages) = 2

\* C15: a budget of 0 implies that suppression is on, and the user turn of a
\* startCompletion issued while the budget is 0 carries the marker.
C15_ZeroBudgetSuppresses ==
    /\ reasoningBudget = 0 => disableThinking
    /\ (lastOp = "start" /\ reasoningBudget = 0) =>
          /\ OccursIn(Marker, Last(messages).content)
          /\ ~OccursIn(Marker, lastQuery) =>
                Last(messages).content # lastQuery

\* C15 witness: setReasoningOptions(false, 0), then startCompletion with a
\* query that lacks the marker.
C15_Witness ==
    /\ lastOp = "start"
    /\ prev = <<"options", "ok">>
    /\ reasoningBudget = 0
    /\ lastQuery = <<>>
    /\ Last(messages).content = Marker

\* C16: every error the engine raises in an operation reaches the host caller
\* of the binding function as a pending exception of that call.
C16_ErrorsDelivered ==
    (lastRet # "ok" /\ lastRet # "crashed") =>
        Delivered(lastOp, lastRet) = "IllegalStateException"

\* C17: whenever nativeTxt2Vid returns after the backend gave it a non-null
\* frame array, every non-null frame buffer has been freed exactly once, no
\* null buffer has been reported freed, the array has been freed exactly
\* once, and a returned Java array has as many elements as the backend gave
\* frames, all of them with data.
C17_FrameMemory ==
    (jni.op = "txt2vid" /\ jni.array) =>
        /\ \A k \in 1 .. Len(jni.frames) :
              jni.bufferFrees[k] = IF jni.frames[k] THEN 1 ELSE 0
        /\ jni.arrayFrees = 1
        /\ jni.result = "array" =>
              /\ jni.resultLen = Len(jni.frames)
              /\ \A k \in 1 .. Len(jni.frames) : jni.frames[k]
              /\ jni.exception = "none"
        /\ jni.result # "array" => jni.result = "null"

\* C17 witness: the third of four frames has no data; the two frames before
\* it were converted, the one behind it was not.
C17_Witness ==
    /\ jni.op = "txt2vid"
    /\ jni.array
    /\ jni.frames = <<TRUE, TRUE, FALSE, TRUE>>
    /\ jni.bufferFrees = <<1, 1, 0, 1>>
    /\ jni.exception = "IllegalStateException"
    /\ jni.result = "null"

\* C18: a progress hook run on a handle whose cancellation flag is set
\* raises and makes no callback invocation, and one whose flag is clear
\* raises nothing; a nativeTxt2Vid whose generation the hook aborted returns
\* null with a CancellationException, and one whose generation failed with
\* the flag clear returns null with a RuntimeException; nativeDestroy after
\* nativeCancelGeneration deletes the handle, leaves no hook registered with
\* the backend, no callback reference held and no exception pending.
C18_Cancellation ==
    [][/\ jni'.op = "hook" =>
             /\ sd.cancellationRequested =>
                   (jni'.raised /\ jni'.calls = <<>> /\ sd' = sd)
             /\ ~sd.cancellationRequested => ~jni'.raised
       /\ (jni.pc \in {"generating", "aborting"} /\ jni'.pc = "idle"
              /\ jni'.exception \in {"CancellationException",
                                     "RuntimeException"}) =>
             /\ jni'.result = "null"
             /\ jni.pc = "aborting" =>
                   jni'.exception = "CancellationException"
             /\ ~sd.cancellationRequested =>
                   jni'.exception = "RuntimeException"
       /\ (jni.op = "cancel" /\ jni.handlePtr = "live"
              /\ jni'.op = "destroy") =>
             /\ jni'.handlePtr = "deleted"
             /\ ~jni'.progressCb
             /\ jni'.globalRefs = 0
             /\ jni'.exception = "none"]_vars

\* C18 witness: nativeTxt2Vid has returned from a generation that the hook
\* aborted, a callback being registered.
C18_Witness ==
    /\ jni.op = "txt2vid"
    /\ jni.raised
    /\ jni.exception = "CancellationException"
    /\ jni.result = "null"
    /\ sd.progressCallbackGlobalRef
    /\ sd.cancellationRequested

\* C19 as stated: with a registered callback and no cancellation, a hook run
\* with step >= 0 makes exactly one callback invocation, with the step
\* capped at the total, the total, the frame, the frame count and the time;
\* the frame is min(step div stepsPerFrame, totalFrames - 1) on a handle
\* with a step count per frame, and always within the frame count.
C19_ProgressReported ==
    [][(/\ jni'.op = "hook"
        /\ sd.progressCallbackGlobalRef /\ sd.progressMethodID /\ sd.jvm
        /\ ~sd.cancellationRequested
        /\ jni'.step >= 0) =>
          /\ Len(jni'.calls) = 1
          /\ LET call == jni'.calls[1] IN
             /\ sd.totalSteps > 0 => call[2] = sd.totalSteps
             /\ call[1] = (IF jni'.step < call[2] THEN jni'.step ELSE call[2])
             /\ call[3] = sd'.currentFrame
             /\ call[4] = sd.totalFrames
             /\ call[5] \in HookTimes
             /\ call[3] \in 0 .. (sd.totalFrames - 1)
             /\ call[1] <= call[2]
          /\ sd.stepsPerFrame > 0 =>
                sd'.currentFrame =
                    (IF jni'.step \div sd.stepsPerFrame < sd.totalFrames - 1
                     THEN jni'.step \div sd.stepsPerFrame
                     ELSE sd.totalFrames - 1)]_vars

\* C19 amended: the same under the further condition that the thread the
\* hook runs on has a JNI environment or can be attached to the VM; without
\* one the hook makes no invocation and leaves the handle as it was.
C19_ProgressReportedWithEnv ==
    [][(/\ jni'.op = "hook"
        /\ sd.progressCallbackGlobalRef /\ sd.progressMethodID /\ sd.jvm
        /\ ~sd.cancellationRequested
        /\ jni'.step >= 0) =>
          IF jni'.env \in {"ok", "attached"}
          THEN /\ Len(jni'.calls) = 1
               /\ LET call == jni'.calls[1] IN
                  /\ sd.totalSteps > 0 => call[2] = sd.totalSteps
                  /\ call[1] =
                        (IF jni'.step < call[2] THEN jni'.step ELSE call[2])
                  /\ call[3] = sd'.currentFrame
                  /\ call[4] = sd.totalFrames
                  /\ call[5] \in HookTimes
                  /\ call[3] \in 0 .. (sd.totalFrames - 1)
                  /\ call[1] <= call[2]
               /\ sd.stepsPerFrame > 0 =>
                     sd'.currentFrame =
                         (IF jni'.step \div sd.stepsPerFrame
                                < sd.totalFrames - 1
                          THEN jni'.step \div sd.stepsPerFrame
                          ELSE sd.totalFrames - 1)
          ELSE jni'.calls = <<>> /\ sd' = sd]_vars

\* C19 witness: four frames of three steps each; the hook has run with step
\* 5 and reported frame 1 of 4 at step 5 of 12.
C19_Witness ==
    /\ jni.op = "hook"
    /\ jni.step = 5
    /\ sd.totalFrames = 4
    /\ sd.stepsPerFrame = 3
    /\ sd.currentFrame = 1
    /\ jni.calls = << <<5, 12, 1, 4, 15>> >>

\* C20: a startCompletion that continues a persisted conversation (history
\* kept, prefix length positive) and stages its prompt leaves the cache as it
\* was and stages all prompt tokens from the position behind the highest one
\* the cache holds.
C20_ContinuationAppends ==
    [][(lastOp' = "start" /\ lastRet' = "ok" /\ storeChats /\ prevLen > 0) =>
          /\ kv' = kv
          /\ batch'.src = "prompt"
          /\ batch'.n = Len(promptTokens')
          /\ batch'.n >= 1
          /\ batch'.pos = SeqPosMax(kv) + 1]_vars

\* C20 witness: a second turn staged behind a first turn's cache entries.
C20_Witness ==
    /\ lastOp = "start"
    /\ lastRet = "ok"
    /\ storeChats
    /\ prevLen > 0
    /\ Len(kv) > 0
    /\ batch.pos = Len(kv)
    /\ batch.n >= 1

\* C21: a successful startCompletion on a handle without persistence, or with
\* a prefix length of 0, leaves the cache empty and stages all prompt tokens
\* from position 0; the step that follows it finds the cache empty and, when
\* it decodes, leaves in the cache the prompt tokens and nothing else.
C21_FreshStartClearsCache ==
    [][/\ (lastOp' = "start" /\ lastRet' = "ok"
             /\ (~storeChats \/ prevLen = 0)) =>
             /\ kv' = <<>>
             /\ batch'.src = "prompt"
             /\ batch'.pos = 0
             /\ batch'.n = Len(promptTokens')
       /\ (lastOp = "start" /\ lastRet = "ok" /\ (~storeChats \/ prevLen = 0)
             /\ lastOp' = "step") =>
             /\ kv = <<>>
             /\ kv' \in {<<>>, promptTokens}
             /\ lastRet' = "ok" => kv' = promptTokens]_vars

\* C21 witness: with persistence and a prefix length still 0, a second
\* completion is started after the first one decoded its prompt and committed
\* its assistant turn; the cache is empty and the whole prompt is staged at 0.
C21_Witness ==
    /\ storeChats
    /\ prevLen = 0
    /\ lastOp = "start"
    /\ lastRet = "ok"
    /\ Len(messages) = 3
    /\ messages[2].role = "assistant"
    /\ kv = <<>>
    /\ batch.pos = 0
    /\ batch.n = Len(promptTokens)

\* C22: whenever a step hands a staged single-token batch to the decoder, the
\* position of that token is the highest committed position of the cache
\* plus one, whatever operations ran since the token was staged.
C22_PositionNeverStale ==
    [][(/\ lastOp' = "step"
        /\ lastRet' \notin {"NoActiveBatchError", "ContextExceededError"}
        /\ batch.src = "curr"
        /\ batch.n = 1) =>
           batch.pos = SeqPosMax(kv) + 1]_vars

\* C23: the tokens startCompletion produces begin with the start-of-sequence
\* token exactly when the prefix length it tokenizes behind is 0; without
\* persistence that length is 0 at every start.
C23_SpecialIffNoPrefix ==
    [][(lastOp' = "start" /\ lastRet' # "RenderError") =>
          /\ (promptTokens' # <<>> /\ Head(promptTokens') = BOS)
                <=> prevLen' = 0
          /\ \A i \in 2..Len(promptTokens') : promptTokens'[i] # BOS
          /\ ~storeChats => prevLen' = 0]_vars

\* C23 witness: with persistence, a completion started behind a non-empty
\* prefix stages tokens that do not begin with the start-of-sequence token.
C23_Witness ==
    /\ storeChats
    /\ lastOp = "start"
    /\ lastRet = "ok"
    /\ prevLen > 0
    /\ promptTokens # <<>>
    /\ Head(promptTokens) # BOS
    /\ batch.n = Len(promptTokens)

\* C24: for a template the renderer accepts, prevLen is never negative; and
\* every startCompletion that gets a rendering cuts its suffix from a prefix
\* length between 0 and the length of the prompt that call rendered, so the
\* range is valid, possibly empty.
C24_SuffixRangeValid ==
    [][/\ tmpl' # "unsupported" => 0 <= prevLen'
       /\ (lastOp' = "start" /\ tmpl' # "unsupported") =>
             lastRet' # "RenderError"
       /\ (lastOp' = "start" /\ lastRet' # "RenderError") =>
             /\ 0 <= prevLen'
             /\ prevLen' <= ApplyTemplate(messages', TRUE)]_vars

\* C24 witness: a completion is started with new turns behind a prefix that
\* a stopCompletion recorded, and the suffix is shorter than the prompt.
C24_Witness ==
    /\ tmpl = "chatml"
    /\ storeChats
    /\ lastOp = "start"
    /\ prev[1] = "add"
    /\ 0 < prevLen
    /\ prevLen < ApplyTemplate(messages, TRUE)
    /\ Len(promptTokens) = ApplyTemplate(messages, TRUE) - prevLen

\* C25: whenever prevLen is positive, the cache is not empty and begins with
\* the tokens of the first prevLen characters of the rendered history.
C25_PrefixWasFed ==
    prevLen > 0 =>
       LET cached == TokensText(kv)
           text == RenderText(messages, FALSE)
       IN /\ kv # <<>>
          /\ prevLen <= Len(text)
          /\ prevLen <= Len(cached)
          /\ SubSeq(cached, 1, prevLen) = SubSeq(text, 1, prevLen)

\* C26 as stated: with persistence disabled, the turns that survive
\* startCompletion's reset are the system turns the history began with; every
\* turn from the first non-system turn on is gone, a later system turn
\* included.
C26_LeadingSystemRunSurvives ==
    [][(lastOp' = "start" /\ ~storeChats) =>
          Front(messages') = LeadingSystemTurns(messages)]_vars

\* C26, amended: with persistence disabled, the turns that survive
\* startCompletion's reset are all the system turns of the history, in their
\* order, wherever they stood; the turns discarded are exactly the others.
C26_SystemTurnsSurvive ==
    [][(lastOp' = "start" /\ ~storeChats) =>
          LET kept == Front(messages')
              sys == {i \in 1..Len(messages) : messages[i].role = "system"}
          IN /\ \A i \in 1..Len(kept) : kept[i].role = "system"
             /\ Len(kept) = Cardinality(sys)
             /\ \E f \in [1..Len(kept) -> sys] :
                   /\ \A i, j \in 1..Len(kept) : i < j => f[i] < f[j]
                   /\ \A i \in 1..Len(kept) : kept[i] = messages[f[i]]
             /\ Len(kept) >= Len(LeadingSystemTurns(messages))]_vars

\* C26 witness: persistence disabled; a first completion ran from a system
\* turn and a user turn, a system turn was added behind them, and the next
\* startCompletion kept both system turns in front of its user turn.
C26_Witness ==
    /\ ~storeChats
    /\ lastOp = "start"
    /\ lastRet = "ok"
    /\ prev = <<"add", "ok">>
    /\ currToken # Unk
    /\ Len(messages) = 3
    /\ messages[1].role = "system"
    /\ messages[2].role = "system"
    /\ messages[3].role = "user"

\* C27: no step changes prevLen, whether it returns a fragment, the empty
\* string or "[EOG]", or fails; prevLen changes only in stopCompletion, which
\* when it returns has set it to the length of the final rendering of the
\* history, or to 0 without persistence, and a startCompletion without
\* persistence leaves it 0.
C27_StepKeepsPrefixLength ==
    [][/\ lastOp' = "step" => prevLen' = prevLen
       /\ prevLen' # prevLen => lastOp' = "stop"
       /\ (lastOp' = "stop" /\ lastRet' = "ok") =>
             prevLen' = (IF storeChats
                         THEN Len(RenderText(messages, FALSE))
                         ELSE 0)
       /\ (lastOp' = "start" /\ ~storeChats) => prevLen' = 0]_vars

\* C27 witness: behind a recorded prefix, a step of the next completion
\* fails for lack of context and the prefix length is still the recorded one.
C27_Witness ==
    /\ storeChats
    /\ lastOp = "step"
    /\ lastRet = "ContextExceededError"
    /\ prev = <<"start", "ok">>
    /\ prevLen > 0
    /\ prevLen < Len(RenderText(messages, TRUE))

\* C28: a successful startCompletion stages the whole prompt, and every step
\* that decodes leaves staged a batch of exactly one token, the token it has
\* just sampled, whatever that token is.
C28_OneLiveBatch ==
    [][/\ (lastOp' = "start" /\ lastRet' = "ok") =>
             /\ batch'.src = "prompt"
             /\ batch'.n = Len(promptTokens')
             /\ BatchTokens(batch', promptTokens', currToken') = promptTokens'
       /\ (lastOp' = "step" /\ lastRet' = "ok") =>
             /\ batch'.n = 1
             /\ batch'.src = "curr"
             /\ BatchTokens(batch', promptTokens', currToken')
                   = <<currToken'>>]_vars

\* C29: a step that samples end-of-generation returns "[EOG]" and nothing of
\* the boundary buffer: the fragments returned so far are unchanged, the
\* assistant turn it commits is taken from the accumulated response alone,
\* and buffer and response are empty afterwards, as they are after
\* stopCompletion and startCompletion; a fragment returned later is made of the
\* bytes buffered and pushed since.
C29_BufferedBytesDiscarded ==
    [][LET piece == SubSeq(pushed', Len(pushed) + 1, Len(pushed')) IN
       /\ (lastOp' = "step" /\ lastRet' = "ok" /\ lastStr' = Sentinel) =>
             /\ cacheResponseTokens' = <<>>
             /\ response' = <<>>
             /\ emitted' = emitted
             /\ storeChats =>
                   /\ messages' # <<>>
                   /\ Front(messages') = messages
                   /\ Last(messages').role = "assistant"
                   /\ IsPrefix(Last(messages').content, response)
             /\ ~storeChats => messages' = messages
       /\ (lastOp' = "start" \/ (lastOp' = "stop" /\ lastRet' = "ok")) =>
             /\ cacheResponseTokens' = <<>>
             /\ response' = <<>>
       /\ (lastOp' = "step" /\ lastRet' = "ok" /\ lastStr' # Sentinel) =>
             /\ lastStr' \in {<<>>, cacheResponseTokens \o piece}
             /\ response' = response \o lastStr'
             /\ emitted' = emitted \o lastStr'
             /\ messages' = messages]_vars

\* C29 witness: with persistence, "a" was returned, the first byte of a
\* three-byte character was buffered, and end-of-generation was sampled: the
\* committed assistant turn is "a" and the buffer is empty.
C29_Witness ==
    /\ storeChats
    /\ lastOp = "step"
    /\ lastStr = Sentinel
    /\ pushed = <<97, 226>>
    /\ emitted = <<97>>
    /\ Last(messages) = Message("assistant", <<97>>)
    /\ cacheResponseTokens = <<>>
    /\ response = <<>>

\* C30: a step whose push leaves the buffer other than a sequence of complete
\* characters returns the empty string and keeps the buffer, old bytes then
\* new; and while the buffer holds bytes that nothing appended can complete,
\* every step returns the empty string or "[EOG]", no fragment is returned
\* and the assistant turn committed holds none of the bytes pushed since.
C30_InvalidBufferHeld ==
    [][LET piece == SubSeq(pushed', Len(pushed) + 1, Len(pushed'))
           buf == cacheResponseTokens \o piece
       IN
       /\ (lastOp' = "step" /\ lastRet' = "ok" /\ lastStr' # Sentinel) =>
             /\ ~WellFormedUtf8(buf) =>
                   /\ lastStr' = <<>>
                   /\ cacheResponseTokens' = buf
             /\ Unrecoverable(cacheResponseTokens) =>
                   /\ lastStr' = <<>>
                   /\ response' = response
                   /\ emitted' = emitted
       /\ (lastOp' = "step" /\ lastRet' = "ok" /\ lastStr' = Sentinel
             /\ Unrecoverable(cacheResponseTokens)) =>
             /\ emitted' = emitted
             /\ storeChats =>
                   IsPrefix(Last(messages').content, response)]_vars

\* C31: a step that directly follows a step that returned "[EOG]", a
\* stopCompletion, or a startCompletion that failed, decodes nothing and
\* commits no assistant turn: the cache and the history stay as they were.
C31_NoDecodeOutsideCompletion ==
    [][(/\ lastOp' = "step"
        /\ \/ lastOp = "step" /\ lastRet = "ok" /\ lastStr = Sentinel
           \/ lastOp = "stop"
           \/ lastOp = "start" /\ lastRet # "ok") =>
          /\ kv' = kv
          /\ messages' = messages]_vars

\* C32: the cache never holds more positions than the context window has,
\* and every step that reaches the decoder does so with the committed
\* positions and the staged tokens together within the window.
C32_WithinContextWindow ==
    [][/\ SeqPosMax(kv') + 1 <= ContextSize
       /\ (lastOp' = "step"
             /\ lastRet' \notin {"NoActiveBatchError",
                                 "ContextExceededError"}) =>
             SeqPosMax(kv) + 1 + batch.n <= ContextSize]_vars

\* C32 witness: a step has decoded a batch that filled the window exactly.
C32_Witness ==
    /\ lastOp = "step"
    /\ lastRet = "ok"
    /\ SeqPosMax(kv) + 1 = ContextSize
    /\ nCtxUsed + 1 = ContextSize

\* C33: a prompt that startCompletion stages at cache position 0 begins with
\* the start-of-sequence token; a prompt tokenized without it is staged
\* behind committed tokens, at a position above 0.
C33_FirstTokensCarryMarker ==
    [][(lastOp' = "start" /\ lastRet' = "ok" /\ batch'.pos = 0) =>
          Head(promptTokens') = BOS]_vars

\* C34: a startCompletion that fails leaves the history as it was (without
\* persistence: as the reset leaves it), and the staged batch, the tokens it
\* reads and the cache untouched; the query is not left as a user turn.
C34_FailedStartLeavesNothing ==
    [][(lastOp' = "start" /\ lastRet' # "ok") =>
          /\ messages' = (IF storeChats THEN messages
                                        ELSE SystemTurns(messages))
          /\ batch' = batch
          /\ BatchTokens(batch', promptTokens', currToken')
                = BatchTokens(batch, promptTokens, currToken)
          /\ kv' = kv]_vars

\* C35: a step that returns a string returns the sentinel "[EOG]" exactly
\* when the token it sampled is an end-of-generation token.
C35_SentinelIffEog ==
    (lastOp = "step" /\ lastRet = "ok") =>
        (lastStr = Sentinel <=> IsEog(currToken))

\* C36: after a step that returned, the context-used metric is the number of
\* positions the cache holds, the batch just decoded included; after a
\* startCompletion that left the cache empty it is 0.
C36_ContextUsedIsCurrent ==
    /\ (lastOp = "step" /\ lastRet = "ok") =>
          getContextSizeUsed = SeqPosMax(kv) + 1
    /\ (lastOp = "start" /\ lastRet = "ok" /\ kv = <<>>) =>
          getContextSizeUsed = 0

\* C37: while nativeTxt2Vid generates on a handle, the backend's progress
\* hook is registered and carries that handle.
C37_HookWiredToGenerator ==
    jni.pc = "generating" => jni.progressCb

\* C38: a cancellation requested after nativeTxt2Vid was entered stays
\* requested while the call runs, the next progress step raises on it, and
\* the call then ends with a CancellationException and no frames.
C38_CancelNeverLost ==
    [][/\ (jni.pc = "entered" /\ jni.op = "cancel"
             /\ jni'.pc = "generating") =>
             sd'.cancellationRequested
       /\ (jni.pc = "generating" /\ sd.cancellationRequested
             /\ jni'.pc = "generating") =>
             sd'.cancellationRequested
       /\ (jni.pc = "generating" /\ sd.cancellationRequested
             /\ jni'.op = "hook") =>
             (jni'.raised /\ jni'.pc = "aborting")
       /\ (jni.pc = "aborting" /\ jni'.pc = "idle") =>
             /\ jni'.exception = "CancellationException"
             /\ jni'.result = "null"]_vars


\* C39: the native methods of an audio handle exclude one another under the
\* handle's mutex, a callback reference is neither deleted nor replaced while
\* a transcription that may call it runs, and no thread holds the mutex of a
\* handle that nativeDestroy has freed.
C39_AudioMutexDiscipline ==
    /\ \A t \in AudioThreads, u \in AudioThreads :
           HoldsMutex(t) /\ HoldsMutex(u) => t = u
    /\ \A t \in AudioThreads :
           audio.thread[t].pc = "running" =>
               /\ audio.thread[t].seen = <<audio.progressCallbackGlobalRef,
                                           audio.segmentCallbackGlobalRef>>
               /\ {audio.progressCallbackGlobalRef,
                   audio.segmentCallbackGlobalRef} \ {<<>>}
                      \subseteq audio.globalRefs
    /\ audio.handle = "freed" => \A t \in AudioThreads : ~HoldsMutex(t)

=============================================================================
